---- MODULE Spec2Model ----
(***************************************************************************)
(* A model of the Lua template renderer (luatemplate.c, reader.c).         *)
(*                                                                         *)
(* Template sources, generated Lua code and file names are TLA+ strings;   *)
(* a character is a string of length one and the terminating NUL that the  *)
(* C code tests with `*p` is the empty string read past the end.           *)
(***************************************************************************)
EXTENDS Integers, Sequences, FiniteSets, TLC

(***************************************************************************)
(* Let(x, F) is F(x): it names the value x in F.                           *)
(***************************************************************************)
Let(x, F(_)) == F(x)

(***************************************************************************)
(* Characters and C string primitives                                      *)
(***************************************************************************)

\* *(p) for a NUL-terminated text: the character at index p, "" at the end.
CharAt(s, p) == IF p >= 1 /\ p <= Len(s) THEN SubSeq(s, p, p) ELSE ""

\* !strncmp(p, lit, strlen(lit))
At(s, p, lit) ==
    /\ p >= 1
    /\ p + Len(lit) - 1 <= Len(s)
    /\ SubSeq(s, p, p + Len(lit) - 1) = lit

\* isspace(3) in the C locale
isspace(c) == c \in {" ", "\t", "\n", "\r", "\f"}

\* The least element of a set of positions.
First(S) == CHOOSE q \in S : \A o \in S : q <= o

\* The result of `while (!Stop(p)) p++;`: the first position at or after p
\* where Stop holds.  Every loop of the code stops at the NUL.
ScanTo(s, p, Stop(_, _)) ==
    IF p > Len(s) THEN p
    ELSE First({q \in p..(Len(s) + 1) : q = Len(s) + 1 \/ Stop(s, q)})

\* while (isspace((int)*p)) p++;
SkipSpace(s, p) ==
    ScanTo(s, p, LAMBDA t, q : ~isspace(CharAt(t, q)))

\* while (*p && strncmp(p, "%>", 2)) p++;
SkipToClose(s, p) ==
    ScanTo(s, p, LAMBDA t, q : At(t, q, "%>"))

\* enum lt_escapes
e_none == 0
e_html == 1
e_xml == 2
e_latex == 3
e_url == 4

\* enum lt_states
s_startup == 0
s_initial == 1
s_output == 2
s_code == 3
s_expression == 4
s_instruction == 5
s_terminate == 6
s_error == 7

(***************************************************************************)
(* lt_escape(): the escape tables                                          *)
(***************************************************************************)
\* The NULL that ends a table and that lt_escape returns for no substitution.
NULL == ""

Ent(c, escape) == [c |-> c, escape |-> escape]

\* The grave accent (0x60), which a TLA+ string cannot hold.
Grave == "GRAVE"

html_escape ==
    <<Ent("&", "&amp;"), Ent("<", "&lt;"), Ent(">", "&gt;"),
      Ent("\"", "&#034;"), Ent("'", "&#039;")>>

xml_escape ==
    <<Ent("&", "&amp;"), Ent("<", "&lt;"), Ent(">", "&gt;"),
      Ent("\"", "&quot;"), Ent("'", "&apos;")>>

latex_escape ==
    <<Ent("&", "\\&"), Ent("$", "\\$"), Ent("\\", "$\\backslash$"),
      Ent("_", "\\_"), Ent("<", "$<$"), Ent(">", "$>$"), Ent("%", "\\%"),
      Ent("#", "\\#"), Ent("^", "$^$")>>

url_escape ==
    <<Ent(" ", "%20"), Ent("<", "%3C"), Ent(">", "%3E"), Ent("#", "%23"),
      Ent("%", "%25"), Ent("{", "%7B"), Ent("}", "%7D"), Ent("|", "%7C"),
      Ent("\\", "%5C"), Ent("^", "%5E"), Ent("~", "%7E"), Ent("[", "%5B"),
      Ent("]", "%5D"), Ent(Grave, "%60"), Ent(";", "%3B"), Ent("/", "%2F"),
      Ent("?", "%3F"), Ent(":", "%3A"), Ent("@", "%40"), Ent("=", "%3D"),
      Ent("&", "%26"), Ent("$", "%24")>>

\* for (; esc->escape != NULL; esc++) if (esc->c == c) break;
\* return esc->escape;
Lookup(esc, c) ==
    Let({i \in 1..Len(esc) : esc[i].c = c}, LAMBDA hits :
        IF hits = {} THEN NULL ELSE esc[First(hits)].escape)

\* A variant of TableOf with one table for html and xml.
TableOfMerged(escape) ==
    IF escape = e_html \/ escape = e_xml THEN html_escape
    ELSE IF escape = e_url THEN url_escape
    ELSE latex_escape

\* switch (escape): the table of the mode.
TableOf(escape) ==
    IF escape = e_html THEN html_escape
    ELSE IF escape = e_xml THEN xml_escape
    ELSE IF escape = e_url THEN url_escape
    ELSE latex_escape

lt_escape(escape, c) ==
    IF escape \notin {e_html, e_xml, e_url, e_latex} THEN NULL
    ELSE Lookup(TableOf(escape), c)

(***************************************************************************)
(* buffer.h: a growable character buffer.  A NUL added with buf_addchar    *)
(* adds nothing to the text that buf_push hands to Lua.                    *)
(***************************************************************************)
buf_addstring(r, str) ==
    IF r.b = "body" THEN [r EXCEPT !.body = @ \o str]
                    ELSE [r EXCEPT !.blocks = @ \o str]

buf_addchar(r, c) == buf_addstring(r, c)

(***************************************************************************)
(* reader(): the directive scanner and code generator                      *)
(***************************************************************************)

\* The end of a bare or quoted name that starts at p (the three copies of
\* the name loop of include, block and extends).
NameEnd(s, p, quoted) ==
    ScanTo(s, p, LAMBDA t, q :
        IF quoted THEN CharAt(t, q) \in {"\"", "'"}
        ELSE \/ isspace(CharAt(t, q))
             \/ (CharAt(t, q) = "%" /\ CharAt(t, q + 1) = ">"))

\* bzero(fnam); p += kwlen; skip blanks; copy the name.  Gives the name and
\* the position after it.
ReadName(s, p0, kwlen) ==
    Let(SkipSpace(s, p0 + kwlen), LAMBDA p1 :
    Let(CharAt(s, p1) \in {"\"", "'"}, LAMBDA quoted :
    Let(IF quoted THEN p1 + 1 ELSE p1, LAMBDA from :
    Let(NameEnd(s, from, quoted), LAMBDA to :
        [fnam |-> SubSeq(s, from, to - 1), p |-> to]))))

\* SLIST_FOREACH(include, includes, next) if (!strcmp(...)) exists = 1;
\* if (!exists) SLIST_INSERT_HEAD(includes, include, next);
AddInclude(includes, fnam) ==
    IF \E i \in 1..Len(includes) : includes[i] = fnam
    THEN includes
    ELSE <<fnam>> \o includes

\* The state of reader() before the first character.
ReaderInit(template) ==
    [p |-> 1, state |-> s_initial, escape |-> e_none, extends |-> FALSE,
     block |-> FALSE, output |-> FALSE, cb |-> 0, fnam |-> "", b |-> "body",
     body |-> "_ENV = ...\ntemplate['" \o template
                \o "'] = { blk = {} }\ntemplate['" \o template
                \o "'].main = function(_ENV, _t)\n",
     blocks |-> "_ENV = ...\n",
     includes |-> <<>>, unclosed |-> FALSE]

\* case s_code
ReaderCode(s, r) ==
    IF ~At(s, r.p, "%>")
    THEN [buf_addchar(r, CharAt(s, r.p)) EXCEPT !.p = r.p + 1]
    ELSE [buf_addstring(r, "\n") EXCEPT !.state = s_initial, !.p = r.p + 2]

\* for (; cb > 0; cb--) buf_addchar(b, ')')
RECURSIVE Parens(_)
Parens(n) == IF n <= 0 THEN "" ELSE ")" \o Parens(n - 1)

\* case s_expression
ReaderExpression(s, r) ==
    IF ~At(s, r.p, "%>")
    THEN [buf_addchar(r, CharAt(s, r.p)) EXCEPT !.p = r.p + 1]
    ELSE [buf_addstring(buf_addstring(r, Parens(r.cb)), ")\n")
            EXCEPT !.state = s_initial, !.cb = 0, !.p = r.p + 2]

\* The mode tag at p: its length and the escape mode of the expression.
ModeTag(s, p, escape) ==
    IF At(s, p, "html") THEN [n |-> 4, e |-> e_html]
    ELSE IF At(s, p, "xml") THEN [n |-> 3, e |-> e_xml]
    ELSE IF At(s, p, "latex") THEN [n |-> 5, e |-> e_latex]
    ELSE IF At(s, p, "url") THEN [n |-> 3, e |-> e_url]
    ELSE IF At(s, p, "none") THEN [n |-> 4, e |-> e_none]
    ELSE [n |-> 0, e |-> escape]

\* A variant of OpenPrint that does not count the escape wrapper.
OpenPrintUncounted(r, escape_temp) ==
    buf_addstring(r,
        IF escape_temp = e_none THEN "print("
        ELSE IF escape_temp = e_html THEN "print(escape_html("
        ELSE IF escape_temp = e_xml THEN "print(escape_xml("
        ELSE IF escape_temp = e_url THEN "print(escape_url("
        ELSE "print(escape_latex(")

\* switch (escape_temp): the call that the expression is wrapped in.
OpenPrint(r, escape_temp) ==
    IF escape_temp = e_none THEN buf_addstring(r, "print(")
    ELSE [buf_addstring(r,
              IF escape_temp = e_html THEN "print(escape_html("
              ELSE IF escape_temp = e_xml THEN "print(escape_xml("
              ELSE IF escape_temp = e_url THEN "print(escape_url("
              ELSE "print(escape_latex(") EXCEPT !.cb = @ + 1]

\* if (*p == '%'): the format up to the next blank goes to string.format.
OpenFormat(s, r, p1) ==
    IF CharAt(s, p1) # "%" THEN [r EXCEPT !.p = p1]
    ELSE Let(ScanTo(s, p1, LAMBDA t, q : isspace(CharAt(t, q))), LAMBDA p2 :
             [buf_addstring(r, "string.format([[" \o SubSeq(s, p1, p2 - 1)
                               \o "]], ") EXCEPT !.cb = @ + 1, !.p = p2])

\* The opening of an expression region: p is at the character after "<%=".
ReaderOpenExpression(s, r) ==
    Let(ModeTag(s, r.p, r.escape), LAMBDA tag :
        [OpenFormat(s, OpenPrint(r, tag.e), r.p + tag.n)
            EXCEPT !.state = s_expression])

\* The character after "<%" selects the region.
ReaderOpen(s, r, p2) ==
    IF CharAt(s, p2) = "=" THEN ReaderOpenExpression(s, [r EXCEPT !.p = p2 + 1])
    ELSE IF CharAt(s, p2) = "!"
        THEN [r EXCEPT !.state = s_instruction, !.p = p2 + 1]
    ELSE [r EXCEPT !.state = s_code, !.p = p2]

\* case s_output (entered directly or by falling through from s_initial)
ReaderOutput(s, r) ==
    IF ~At(s, r.p, "<%")
    THEN [buf_addchar(r, CharAt(s, r.p)) EXCEPT !.p = r.p + 1]
    ELSE Let(ReaderOpen(s, IF r.output
                           THEN [buf_addstring(r, "]])\n") EXCEPT !.output = FALSE]
                           ELSE r,
                        r.p + 2), LAMBDA r2 :
         Let([r2 EXCEPT !.p = SkipSpace(s, r2.p)], LAMBDA r3 :
             IF r3.state = s_expression \/ r3.state = s_instruction
             THEN r3
             ELSE ReaderCode(s, r3)))        \* FALLTHROUGH

\* case s_initial
ReaderInitial(s, r) ==
    ReaderOutput(s,                                        \* FALLTHROUGH
        [(IF ~At(s, r.p, "<%") /\ (~r.extends \/ (r.extends /\ r.block))
          THEN [buf_addstring(r, "print([[") EXCEPT !.output = TRUE]
          ELSE r) EXCEPT !.state = s_output])

\* <%! include NAME
ReaderInclude(s, template, r) ==
    Let(ReadName(s, r.p, 7), LAMBDA nm :
        [buf_addstring(r, "render_template(_ENV, '" \o nm.fnam \o "')\n")
            EXCEPT !.fnam = nm.fnam, !.p = nm.p,
                   !.includes = AddInclude(r.includes, nm.fnam)])

\* <%! escape MODE
ReaderEscape(s, template, r) ==
    Let(SkipSpace(s, r.p + 6), LAMBDA p1 :
        IF At(s, p1, "none") THEN [r EXCEPT !.escape = e_none, !.p = p1 + 4]
        ELSE IF At(s, p1, "html") THEN [r EXCEPT !.escape = e_html, !.p = p1 + 4]
        ELSE IF At(s, p1, "latex") THEN [r EXCEPT !.escape = e_latex, !.p = p1 + 5]
        ELSE IF At(s, p1, "url") THEN [r EXCEPT !.escape = e_url, !.p = p1 + 3]
        ELSE [r EXCEPT !.p = p1])

\* <%! block NAME
ReaderBlock(s, template, r) ==
    Let(ReadName(s, r.p, 5), LAMBDA nm :
        [buf_addstring([r EXCEPT !.b = "blocks"],
            (IF ~r.extends
             THEN "if template['" \o template \o "'].blk['" \o nm.fnam
                      \o "'] == nil then\n"
             ELSE "")
            \o "template['" \o template \o "'].blk['" \o nm.fnam
            \o "'] = function (_ENV)\n")
            EXCEPT !.fnam = nm.fnam, !.p = nm.p, !.block = TRUE])

\* <%! endblock
ReaderEndblock(s, template, r) ==
    Let([buf_addstring(r, IF ~r.extends THEN "end\nend\n" ELSE "end\n")
            EXCEPT !.b = "body"], LAMBDA r2 :
        [(IF ~r.extends
          THEN buf_addstring(r2, "render_block(_ENV, _t, '" \o r.fnam \o "')\n")
          ELSE r2) EXCEPT !.block = FALSE, !.p = r.p + 8])

\* <%! extends NAME
ReaderExtends(s, template, r) ==
    Let(ReadName(s, r.p, 7), LAMBDA nm :
        [buf_addstring(r,
            (IF ~r.extends THEN "end\n" ELSE "")
            \o "template['" \o template \o "'].main = nil\n"
            \o "template['" \o template \o "'].extends = '" \o nm.fnam \o "'\n")
            EXCEPT !.fnam = nm.fnam, !.p = nm.p, !.extends = TRUE,
                   !.includes = AddInclude(r.includes, nm.fnam)])

\* The keyword of an instruction region.
ReaderKeyword(s, template, r) ==
    IF At(s, r.p, "include") THEN ReaderInclude(s, template, r)
    ELSE IF At(s, r.p, "escape") THEN ReaderEscape(s, template, r)
    ELSE IF At(s, r.p, "block") THEN ReaderBlock(s, template, r)
    ELSE IF At(s, r.p, "endblock") THEN ReaderEndblock(s, template, r)
    ELSE IF At(s, r.p, "extends") THEN ReaderExtends(s, template, r)
    ELSE r

\* case s_instruction
ReaderInstruction(s, template, r) ==
    Let(ReaderKeyword(s, template, r), LAMBDA r1 :
    Let(SkipToClose(s, r1.p), LAMBDA p1 :
    Let(CharAt(s, p1) # "", LAMBDA found :
        [r1 EXCEPT !.p = IF found THEN p1 + 2 ELSE p1,
                   !.unclosed = ~found,
                   !.state = s_initial])))

\* One turn of the loop `while (*p) switch (state)`.
ReaderStep(s, template, r) ==
    IF r.state = s_initial THEN ReaderInitial(s, r)
    ELSE IF r.state = s_output THEN ReaderOutput(s, r)
    ELSE IF r.state = s_code THEN ReaderCode(s, r)
    ELSE IF r.state = s_expression THEN ReaderExpression(s, r)
    ELSE IF r.state = s_instruction THEN ReaderInstruction(s, template, r)
    ELSE r

\* while (*p) { ... }: at most n turns of the loop.  Every turn consumes at
\* least one character, so Len(s) turns reach the NUL.
RECURSIVE ReaderTurns(_, _, _, _)
ReaderTurns(s, template, r, n) ==
    IF CharAt(s, r.p) = "" \/ n <= 0 THEN r
    ELSE IF n = 1 THEN ReaderStep(s, template, r)
    ELSE LET half == ReaderTurns(s, template, r, n \div 2)
         IN  IF CharAt(s, half.p) = "" THEN half
             ELSE ReaderTurns(s, template, half, n - (n \div 2))

ReaderLoop(s, template, r) == ReaderTurns(s, template, r, Len(s))

\* The end of input: close the pending literal and the main routine.
ReaderFinish(r) ==
    [buf_addstring(r, (IF r.state = s_output /\ ~r.extends THEN "]])\n" ELSE "")
                      \o (IF ~r.extends THEN "end\n" ELSE ""))
        EXCEPT !.state = IF r.state = s_output \/ r.state = s_initial
                         THEN s_terminate ELSE s_error]

\* reader(L, p, s, includes, template, print): the two code buffers that it
\* pushes (blocks first, body on top), the dependency list and the final state.
reader(s, template) ==
    ReaderFinish(ReaderLoop(s, template, ReaderInit(template)))

(***************************************************************************)
(* The Lua side of luaL_loadbuffer: a lexer and a recursive-descent parser *)
(* for the part of Lua that the generated code is written in (names,       *)
(* strings, long strings, nil, `...`, table constructors, function         *)
(* bodies, indexing, calls, `==`, assignment, `if`, the empty statement).  *)
(***************************************************************************)
Letters ==
    {"a","b","c","d","e","f","g","h","i","j","k","l","m","n","o","p","q","r",
     "s","t","u","v","w","x","y","z","A","B","C","D","E","F","G","H","I","J",
     "K","L","M","N","O","P","Q","R","S","T","U","V","W","X","Y","Z","_"}

Digits == {"0","1","2","3","4","5","6","7","8","9"}

LuaKeywords ==
    {"and","break","do","else","elseif","end","false","for","function","goto",
     "if","in","local","nil","not","or","repeat","return","then","true",
     "until","while"}

Tok(t, v) == [t |-> t, v |-> v]

\* The end of a run of characters of the set cs that starts at p.
RunEnd(s, p, cs) ==
    LET Stop(t, q) == CharAt(t, q) \notin cs IN ScanTo(s, p, Stop)

\* The position of the first occurrence of lit at or after p, 0 if none.
Find(s, p, lit) ==
    LET Stop(t, q) == At(t, q, lit)
        e == ScanTo(s, p, Stop)
    IN  IF At(s, e, lit) THEN e ELSE 0

\* The closing quote of a short string, 0 when a newline, a backslash or the
\* end of the chunk comes first.
QuoteEnd(s, p, q) ==
    LET Stop(t, i) == CharAt(t, i) \in {q, "\n", "\\"}
        e == ScanTo(s, p, Stop)
    IN  IF CharAt(s, e) = q THEN e ELSE 0

\* llex(): the next token of chunk s at position lx.p, appended to lx.toks.
\* A lexical error ends the token list with an "err" token.
LuaLexStep(s, lx) ==
    LET p == lx.p
        c == CharAt(s, p)
        Out(tok, next) == [p |-> next, toks |-> Append(lx.toks, tok)]
        Stop(tok) == [p |-> Len(s) + 1, toks |-> Append(lx.toks, tok)]
    IN  IF c = "" THEN lx
        ELSE IF isspace(c) THEN [lx EXCEPT !.p = SkipSpace(s, p)]
        ELSE IF c \in Letters THEN
            LET e == RunEnd(s, p, Letters \cup Digits)
                w == SubSeq(s, p, e - 1)
            IN  Out(Tok(IF w \in LuaKeywords THEN "kw" ELSE "name", w), e)
        ELSE IF c \in Digits THEN
            LET e == RunEnd(s, p, Letters \cup Digits \cup {"."})
                d == RunEnd(s, p, Digits)
            IN  IF d = e THEN Out(Tok("num", SubSeq(s, p, e - 1)), e)
                ELSE Stop(Tok("err", "malformed number"))
        ELSE IF At(s, p, "[[") THEN
            LET e == Find(s, p + 2, "]]")
                from == IF CharAt(s, p + 2) = "\n" THEN p + 3 ELSE p + 2
            IN  IF e = 0 THEN Stop(Tok("err", "unfinished long string"))
                ELSE Out(Tok("str", SubSeq(s, from, e - 1)), e + 2)
        ELSE IF c = "'" \/ c = "\"" THEN
            LET e == QuoteEnd(s, p + 1, c)
            IN  IF e = 0 THEN Stop(Tok("err", "unfinished string"))
                ELSE Out(Tok("str", SubSeq(s, p + 1, e - 1)), e + 1)
        ELSE IF At(s, p, "...") THEN Out(Tok("sym", "..."), p + 3)
        ELSE IF At(s, p, "==") THEN Out(Tok("sym", "=="), p + 2)
        ELSE Out(Tok("sym", c), p + 1)

RECURSIVE LuaLexTurns(_, _, _)
LuaLexTurns(s, lx, n) ==
    IF lx.p > Len(s) \/ n <= 0 THEN lx
    ELSE IF n = 1 THEN LuaLexStep(s, lx)
    ELSE LET half == LuaLexTurns(s, lx, n \div 2)
         IN  IF half.p > Len(s) THEN half
             ELSE LuaLexTurns(s, half, n - (n \div 2))

\* The tokens of chunk s.
LuaLex(s) == LuaLexTurns(s, [p |-> 1, toks |-> <<>>], Len(s)).toks

TokAt(toks, p) == IF p >= 1 /\ p <= Len(toks) THEN toks[p] ELSE Tok("eof", "")

IsTok(toks, p, t, v) == TokAt(toks, p) = Tok(t, v)

\* Parse results: ok, the position after what was parsed, and the tree.
PFail(p) == [ok |-> FALSE, p |-> p, ast |-> [k |-> "none"]]
POk(p, ast) == [ok |-> TRUE, p |-> p, ast |-> ast]

\* Parse(nt, toks, p, x) parses the nonterminal nt at position p; x is the
\* list or the prefix expression built so far.
RECURSIVE Parse(_, _, _, _)
RECURSIVE ParseParams(_, _, _)

\* parlist: Name {',' Name} up to the ')'
ParseParams(toks, p, acc) ==
    IF IsTok(toks, p, "sym", ")") THEN
        IF acc = <<>> THEN POk(p + 1, acc) ELSE PFail(p)
    ELSE IF TokAt(toks, p).t = "name" THEN
        LET acc1 == Append(acc, TokAt(toks, p).v)
        IN  IF IsTok(toks, p + 1, "sym", ",")
            THEN IF TokAt(toks, p + 2).t = "name"
                 THEN ParseParams(toks, p + 2, acc1) ELSE PFail(p + 2)
            ELSE IF IsTok(toks, p + 1, "sym", ")") THEN POk(p + 2, acc1)
            ELSE PFail(p + 1)
    ELSE PFail(p)

\* explist up to the ')' of a call
ParseArgs(toks, p, acc) ==
    IF IsTok(toks, p, "sym", ")") THEN
        IF acc = <<>> THEN POk(p + 1, acc) ELSE PFail(p)
    ELSE
        LET e == Parse("exp", toks, p, <<>>)
        IN  IF ~e.ok THEN PFail(e.p)
            ELSE IF IsTok(toks, e.p, "sym", ",")
                 THEN IF IsTok(toks, e.p + 1, "sym", ")") THEN PFail(e.p + 1)
                      ELSE Parse("args", toks, e.p + 1, Append(acc, e.ast))
            ELSE IF IsTok(toks, e.p, "sym", ")")
                 THEN POk(e.p + 1, Append(acc, e.ast))
            ELSE PFail(e.p)

\* fieldlist of a table constructor: Name '=' exp, up to the '}'
ParseFields(toks, p, acc) ==
    IF IsTok(toks, p, "sym", "}") THEN POk(p + 1, acc)
    ELSE IF TokAt(toks, p).t = "name" /\ IsTok(toks, p + 1, "sym", "=") THEN
        LET e == Parse("exp", toks, p + 2, <<>>)
            acc1 == Append(acc, [n |-> TokAt(toks, p).v, e |-> e.ast])
        IN  IF ~e.ok THEN PFail(e.p)
            ELSE IF IsTok(toks, e.p, "sym", ",")
                 THEN Parse("fields", toks, e.p + 1, acc1)
            ELSE IF IsTok(toks, e.p, "sym", "}") THEN POk(e.p + 1, acc1)
            ELSE PFail(e.p)
    ELSE PFail(p)

\* suffixedexp: { '.' Name | '[' exp ']' | '(' explist ')' }
ParseSuffixes(toks, p, e) ==
    IF IsTok(toks, p, "sym", ".") THEN
        IF TokAt(toks, p + 1).t = "name"
        THEN Parse("suffixes", toks, p + 2,
                 [k |-> "index", o |-> e,
                  i |-> [k |-> "str", v |-> TokAt(toks, p + 1).v]])
        ELSE PFail(p + 1)
    ELSE IF IsTok(toks, p, "sym", "[") THEN
        LET i == Parse("exp", toks, p + 1, <<>>)
        IN  IF i.ok /\ IsTok(toks, i.p, "sym", "]")
            THEN Parse("suffixes", toks, i.p + 1,
                     [k |-> "index", o |-> e, i |-> i.ast])
            ELSE PFail(i.p)
    ELSE IF IsTok(toks, p, "sym", "(") THEN
        LET a == Parse("args", toks, p + 1, <<>>)
        IN  IF a.ok
            THEN Parse("suffixes", toks, a.p, [k |-> "call", f |-> e, args |-> a.ast])
            ELSE PFail(a.p)
    ELSE POk(p, e)

\* simpleexp
ParseSimple(toks, p) ==
    LET t == TokAt(toks, p)
    IN  IF t.t = "str" THEN POk(p + 1, [k |-> "str", v |-> t.v])
        ELSE IF t = Tok("kw", "nil") THEN POk(p + 1, [k |-> "nil"])
        ELSE IF t = Tok("sym", "...") THEN POk(p + 1, [k |-> "vararg"])
        ELSE IF t = Tok("sym", "{") THEN
            LET f == Parse("fields", toks, p + 1, <<>>)
            IN  IF f.ok THEN POk(f.p, [k |-> "table", fields |-> f.ast])
                ELSE PFail(f.p)
        ELSE IF t = Tok("kw", "function") THEN
            IF ~IsTok(toks, p + 1, "sym", "(") THEN PFail(p + 1)
            ELSE LET ps == ParseParams(toks, p + 2, <<>>)
                     body == Parse("block", toks, ps.p, <<>>)
                 IN  IF ~ps.ok THEN PFail(ps.p)
                     ELSE IF body.ok /\ IsTok(toks, body.p, "kw", "end")
                          THEN POk(body.p + 1, [k |-> "func", params |-> ps.ast,
                                                body |-> body.ast])
                     ELSE PFail(body.p)
        ELSE IF t.t = "name"
            THEN Parse("suffixes", toks, p + 1, [k |-> "name", v |-> t.v])
        ELSE PFail(p)

\* exp: simpleexp [ '==' simpleexp ]
ParseExp(toks, p) ==
    LET l == Parse("simple", toks, p, <<>>)
    IN  IF ~l.ok THEN l
        ELSE IF IsTok(toks, l.p, "sym", "==") THEN
            LET r == Parse("simple", toks, l.p + 1, <<>>)
            IN  IF r.ok THEN POk(r.p, [k |-> "eq", l |-> l.ast, r |-> r.ast])
                ELSE PFail(r.p)
        ELSE l

\* statement
ParseStat(toks, p) ==
    LET t == TokAt(toks, p)
    IN  IF t = Tok("sym", ";") THEN POk(p + 1, [k |-> "empty"])
        ELSE IF t = Tok("kw", "if") THEN
            LET c == Parse("exp", toks, p + 1, <<>>)
                body == Parse("block", toks, c.p + 1, <<>>)
            IN  IF ~c.ok THEN PFail(c.p)
                ELSE IF ~IsTok(toks, c.p, "kw", "then") THEN PFail(c.p)
                ELSE IF body.ok /\ IsTok(toks, body.p, "kw", "end")
                     THEN POk(body.p + 1, [k |-> "if", c |-> c.ast,
                                           body |-> body.ast])
                ELSE PFail(body.p)
        ELSE IF t.t = "name" THEN
            LET e == Parse("suffixes", toks, p + 1, [k |-> "name", v |-> t.v])
            IN  IF ~e.ok THEN e
                ELSE IF IsTok(toks, e.p, "sym", "=") THEN
                    LET r == Parse("exp", toks, e.p + 1, <<>>)
                    IN  IF r.ok /\ e.ast.k \in {"name", "index"}
                        THEN POk(r.p, [k |-> "assign", l |-> e.ast, r |-> r.ast])
                        ELSE PFail(r.p)
                ELSE IF e.ast.k = "call"
                     THEN POk(e.p, [k |-> "callstat", e |-> e.ast])
                ELSE PFail(e.p)
        ELSE PFail(p)

\* block: statements up to `end` or the end of the chunk
ParseBlock(toks, p, acc) ==
    IF TokAt(toks, p).t = "eof" \/ IsTok(toks, p, "kw", "end")
    THEN POk(p, acc)
    ELSE LET st == Parse("stat", toks, p, <<>>)
         IN  IF st.ok THEN Parse("block", toks, st.p, Append(acc, st.ast))
             ELSE PFail(st.p)

\* The nonterminals of the grammar.
Parse(nt, toks, p, x) ==
    IF nt = "args" THEN ParseArgs(toks, p, x)
    ELSE IF nt = "fields" THEN ParseFields(toks, p, x)
    ELSE IF nt = "suffixes" THEN ParseSuffixes(toks, p, x)
    ELSE IF nt = "simple" THEN ParseSimple(toks, p)
    ELSE IF nt = "exp" THEN ParseExp(toks, p)
    ELSE IF nt = "stat" THEN ParseStat(toks, p)
    ELSE ParseBlock(toks, p, x)

\* luaL_loadbuffer(L, buff, len, name): the chunk as a function value, or
\* LUA_ERRSYNTAX.
luaL_loadbuffer(buff) ==
    LET toks == LuaLex(buff)
        r == ParseBlock(toks, 1, <<>>)
    IN  IF r.ok /\ r.p = Len(toks) + 1
        THEN [ok |-> TRUE, fn |-> r.ast]
        ELSE [ok |-> FALSE, fn |-> <<>>]

(***************************************************************************)
(* Lua values and the template registry                                    *)
(*                                                                         *)
(* The registry is the table `template` of the context's container: a      *)
(* function from the registered names to entries with the fields main,     *)
(* blk, extends and mtime.                                                 *)
(***************************************************************************)
NilV == [t |-> "nil"]
StrV(x) == [t |-> "str", v |-> x]
IntV(n) == [t |-> "int", v |-> n]
FnV(params, body) == [t |-> "fn", params |-> params, body |-> body]
\* A function of the host or of the library: a writer ("io.write" or a sink
\* of the host), render_block, render_template, the table `string`.
BuiltinV(x) == [t |-> "builtin", v |-> x]
\* The environment table itself, as the value of the name _ENV.
EnvV == [t |-> "env"]

NoBlocks == [x \in {} |-> NilV]

\* template[name] = { blk = {} }
NewEntry == [main |-> NilV, blk |-> NoBlocks, extends |-> NilV, mtime |-> NilV]

Registered(reg, n) == n \in DOMAIN reg

SetEntry(reg, n, e) == [x \in DOMAIN reg \cup {n} |-> IF x = n THEN e ELSE reg[x]]

DelEntry(reg, n) == [x \in DOMAIN reg \ {n} |-> reg[x]]

SetBlock(blk, b, f) == [x \in DOMAIN blk \cup {b} |-> IF x = b THEN f ELSE blk[x]]

\* Results of running Lua code: st is "ok", "error" (a Lua error with the
\* message msg), "hang" (a loop that does not end) or "unmodelled" (code
\* outside the modelled part of Lua); ev is what the code did, in order.
Res(st, msg, ev) == [st |-> st, msg |-> msg, ev |-> ev]

\* Events: a write of text s by writer w, the call of the main routine of
\* root for the requested template tn, a block dispatch for (t, b) that
\* resolved to the template r ("" when no template defines b).
WriteEv(w, x) == [e |-> "write", a |-> w, b |-> x, c |-> ""]
MainEv(root, tn) == [e |-> "main", a |-> root, b |-> tn, c |-> ""]
BlockEv(t, b, r) == [e |-> "block", a |-> t, b |-> b, c |-> r]

\* The environment that render_template prepares: the data of the host plus
\* print, string, render_block and render_template of the container.
BindHelpers(env, print) ==
    [x \in DOMAIN env \cup {"print", "string", "render_block", "render_template"} |->
        IF x = "print" THEN BuiltinV(print)
        ELSE IF x = "string" THEN BuiltinV("string")
        ELSE IF x = "render_block" THEN BuiltinV("render_block")
        ELSE IF x = "render_template" THEN BuiltinV("render_template")
        ELSE env[x]]

\* The value of an expression of a routine: locals are the parameters, every
\* other name is a field of the environment.
\* ok = FALSE with err = "" is an expression outside the modelled part.
EOk(v) == [ok |-> TRUE, v |-> v, err |-> ""]
EFail(err) == [ok |-> FALSE, v |-> NilV, err |-> err]

RECURSIVE EvalExp(_, _, _)
EvalExp(e, locals, env) ==
    IF e.k = "str" THEN EOk(StrV(e.v))
    ELSE IF e.k = "nil" THEN EOk(NilV)
    ELSE IF e.k = "name" THEN
        EOk(IF e.v \in DOMAIN locals THEN locals[e.v]
            ELSE IF e.v \in DOMAIN env THEN env[e.v] ELSE NilV)
    ELSE IF e.k = "index" THEN
        LET o == EvalExp(e.o, locals, env)
        IN  IF ~o.ok THEN o
            ELSE IF o.v.t = "nil" THEN EFail("attempt to index a nil value")
            ELSE IF o.v = BuiltinV("string") /\ e.i = [k |-> "str", v |-> "format"]
            THEN EOk(BuiltinV("string.format"))
            ELSE EFail("")
    ELSE IF e.k = "call" THEN
        LET f == EvalExp(e.f, locals, env)
        IN  IF ~f.ok THEN f
            ELSE IF f.v.t = "nil" THEN EFail("attempt to call a nil value")
            ELSE EFail("")
    ELSE EFail("")

\* The limit of nested Lua calls, beyond which Lua raises "stack overflow".
MaxLuaDepth == 8

RECURSIVE ExecStmts(_, _, _, _, _, _, _)
RECURSIVE ExecStmt(_, _, _, _, _, _)
RECURSIVE CallValue(_, _, _, _, _, _)
RECURSIVE RenderTemplateRoot(_, _, _)

\* render_template: while template[n].extends ~= nil do n = ... end
\* fuel counts the entries not yet visited; none left means a cycle.
RenderTemplateRoot(reg, n, fuel) ==
    IF ~Registered(reg, n) THEN [st |-> "error", n |-> n]
    ELSE IF reg[n].extends.t = "nil" THEN [st |-> "ok", n |-> n]
    ELSE IF fuel = 0 THEN [st |-> "hang", n |-> n]
    ELSE RenderTemplateRoot(reg, reg[n].extends.v, fuel - 1)

\* The Lua function render_template(env, n).
render_template(reg, print, env, n, depth) ==
    Let(RenderTemplateRoot(reg, n, Cardinality(DOMAIN reg)), LAMBDA root :
        IF root.st = "error"
            THEN Res("error", "attempt to index a nil value", <<>>)
        ELSE IF root.st = "hang" THEN Res("hang", "", <<>>)
        ELSE IF reg[root.n].main.t # "fn"
            THEN Res("error", "attempt to call a nil value", <<>>)
        ELSE Let(ExecStmts(reg[root.n].main.body, 1,
                           [_ENV |-> EnvV, _t |-> StrV(n)],
                           BindHelpers(env, print), reg, print, depth + 1),
                 LAMBDA r : Res(r.st, r.msg, <<MainEv(root.n, n)>> \o r.ev)))

\* A variant of RenderBlockFind that does not walk the chain.
RenderBlockFindHere(reg, t, b, fuel) ==
    IF t.t = "nil" THEN [st |-> "ok", t |-> t]
    ELSE IF ~Registered(reg, t.v) THEN [st |-> "error", t |-> t]
    ELSE [st |-> "ok", t |-> IF b \in DOMAIN reg[t.v].blk THEN t ELSE NilV]

\* render_block: while t ~= nil and template[t].blk[b] == nil do
\*                   t = template[t].extends end
RECURSIVE RenderBlockFind(_, _, _, _)
RenderBlockFind(reg, t, b, fuel) ==
    IF t.t = "nil" THEN [st |-> "ok", t |-> t]
    ELSE IF ~Registered(reg, t.v) THEN [st |-> "error", t |-> t]
    ELSE IF b \in DOMAIN reg[t.v].blk THEN [st |-> "ok", t |-> t]
    ELSE IF fuel = 0 THEN [st |-> "hang", t |-> t]
    ELSE RenderBlockFind(reg, reg[t.v].extends, b, fuel - 1)

\* The Lua function render_block(env, t, b).
render_block(reg, print, env, t, b, depth) ==
    Let(RenderBlockFind(reg, t, b, Cardinality(DOMAIN reg)), LAMBDA found :
    Let(IF t.t = "str" THEN t.v ELSE "", LAMBDA t0 :
        IF found.st = "error"
            THEN Res("error", "attempt to index a nil value", <<>>)
        ELSE IF found.st = "hang" THEN Res("hang", "", <<>>)
        ELSE IF found.t.t = "nil" THEN Res("ok", "", <<BlockEv(t0, b, "")>>)
        ELSE Let(ExecStmts(reg[found.t.v].blk[b].body, 1, [_ENV |-> EnvV],
                           env, reg, print, depth + 1),
                 LAMBDA r : Res(r.st, r.msg,
                                <<BlockEv(t0, b, found.t.v)>> \o r.ev))))

\* A call of the value f with the arguments args.
CallValue(f, args, env, reg, print, depth) ==
    IF depth >= MaxLuaDepth THEN Res("error", "stack overflow", <<>>)
    ELSE IF f.t = "nil" THEN Res("error", "attempt to call a nil value", <<>>)
    ELSE IF f.t # "builtin" THEN Res("unmodelled", "", <<>>)
    ELSE IF f.v = "render_template" THEN
        IF Len(args) = 2 /\ args[1] = EnvV /\ args[2].t = "str"
        THEN render_template(reg, print, env, args[2].v, depth + 1)
        ELSE Res("unmodelled", "", <<>>)
    ELSE IF f.v = "render_block" THEN
        IF Len(args) = 3 /\ args[1] = EnvV /\ args[2].t \in {"str", "nil"}
                         /\ args[3].t = "str"
        THEN render_block(reg, print, env, args[2], args[3].v, depth + 1)
        ELSE Res("unmodelled", "", <<>>)
    ELSE IF f.v \in {"string", "string.format"} THEN Res("unmodelled", "", <<>>)
    ELSE \* a writer: io.write or a sink of the host
        IF Len(args) = 1 /\ args[1].t = "str"
        THEN Res("ok", "", <<WriteEv(f.v, args[1].v)>>)
        ELSE Res("unmodelled", "", <<>>)

\* The failure of an expression that has no value.
ExpFailure(x) ==
    Res(IF x.err = "" THEN "unmodelled" ELSE "error", x.err, <<>>)

\* The values of the arguments of a call, or the first failure among them.
ExecCall(f, a, env, reg, print, depth) ==
    Let({j \in 1..Len(a) : ~a[j].ok}, LAMBDA bad :
        IF bad # {} THEN ExpFailure(a[First(bad)])
        ELSE CallValue(f.v, [j \in 1..Len(a) |-> a[j].v], env, reg, print,
                       depth))

\* One statement of a routine.
ExecStmt(st, locals, env, reg, print, depth) ==
    IF st.k = "empty" THEN Res("ok", "", <<>>)
    ELSE IF st.k = "callstat" THEN
        Let(EvalExp(st.e.f, locals, env), LAMBDA f :
            IF ~f.ok THEN ExpFailure(f)
            ELSE ExecCall(f, [j \in 1..Len(st.e.args) |->
                                 EvalExp(st.e.args[j], locals, env)],
                          env, reg, print, depth))
    ELSE Res("unmodelled", "", <<>>)

\* The statements of a routine from the i-th on.
ExecStmts(stmts, i, locals, env, reg, print, depth) ==
    IF i > Len(stmts) THEN Res("ok", "", <<>>)
    ELSE Let(ExecStmt(stmts[i], locals, env, reg, print, depth), LAMBDA r :
             IF r.st # "ok" THEN r
             ELSE Let(ExecStmts(stmts, i + 1, locals, env, reg, print, depth),
                      LAMBDA rest : Res(rest.st, rest.msg, r.ev \o rest.ev)))

(***************************************************************************)
(* Running a loaded chunk: lua_pcall(L, 1, 0, 0) of the function that      *)
(* luaL_loadbuffer made from a code buffer, with one argument.             *)
(***************************************************************************)

\* The keys of an access such as template['a'].blk['g'], <<"?">> for
\* anything that is not a chain of constant keys below a name.
RECURSIVE PathOf(_)
PathOf(e) ==
    IF e.k = "name" THEN <<e.v>>
    ELSE IF e.k = "index" THEN
        IF e.i.k = "str" /\ PathOf(e.o) # <<"?">>
        THEN Append(PathOf(e.o), e.i.v) ELSE <<"?">>
    ELSE <<"?">>

\* The value found at a path of the container, "error" when a table on the
\* way is nil.
GetPath(reg, path) ==
    LET n == Len(path)
        have == n >= 2 /\ path[1] = "template" /\ Registered(reg, path[2])
    IN  IF n = 0 \/ path[1] # "template" \/ n > 4 THEN [st |-> "unmodelled", v |-> NilV]
        ELSE IF n = 1 THEN [st |-> "unmodelled", v |-> NilV]
        ELSE IF n = 2 THEN [st |-> "unmodelled", v |-> NilV]
        ELSE IF ~have THEN [st |-> "error", v |-> NilV]
        ELSE IF n = 3 THEN
            IF path[3] = "main" THEN [st |-> "ok", v |-> reg[path[2]].main]
            ELSE IF path[3] = "extends" THEN [st |-> "ok", v |-> reg[path[2]].extends]
            ELSE IF path[3] = "mtime" THEN [st |-> "ok", v |-> reg[path[2]].mtime]
            ELSE [st |-> "unmodelled", v |-> NilV]
        ELSE IF path[3] # "blk" THEN [st |-> "unmodelled", v |-> NilV]
        ELSE [st |-> "ok",
              v |-> IF path[4] \in DOMAIN reg[path[2]].blk
                       THEN reg[path[2]].blk[path[4]] ELSE NilV]

\* The value of the right-hand side of a chunk-level assignment.
ChunkValue(e) ==
    IF e.k = "nil" THEN [ok |-> TRUE, v |-> NilV]
    ELSE IF e.k = "str" THEN [ok |-> TRUE, v |-> StrV(e.v)]
    ELSE IF e.k = "func" THEN [ok |-> TRUE, v |-> FnV(e.params, e.body)]
    ELSE IF e = [k |-> "table",
                 fields |-> <<[n |-> "blk", e |-> [k |-> "table", fields |-> <<>>]]>>]
        THEN [ok |-> TRUE, v |-> [t |-> "entry"]]
    ELSE [ok |-> FALSE, v |-> NilV]

\* An assignment path = v in the container; cx is [st, msg, ev, reg].
SetPath(reg, path, v) ==
    LET n == Len(path)
        k == path[2]
    IN  IF n < 2 \/ n > 4 \/ path[1] # "template" THEN [st |-> "unmodelled", reg |-> reg]
        ELSE IF n = 2 THEN
            IF v.t = "entry" THEN [st |-> "ok", reg |-> SetEntry(reg, k, NewEntry)]
            ELSE [st |-> "unmodelled", reg |-> reg]
        ELSE IF ~Registered(reg, k) THEN [st |-> "error", reg |-> reg]
        ELSE IF n = 3 THEN
            IF path[3] = "main" /\ v.t \in {"fn", "nil"}
                THEN [st |-> "ok", reg |-> [reg EXCEPT ![k].main = v]]
            ELSE IF path[3] = "extends" /\ v.t \in {"str", "nil"}
                THEN [st |-> "ok", reg |-> [reg EXCEPT ![k].extends = v]]
            ELSE [st |-> "unmodelled", reg |-> reg]
        ELSE IF path[3] = "blk" /\ v.t = "fn"
            THEN [st |-> "ok",
                  reg |-> [reg EXCEPT ![k].blk = SetBlock(@, path[4], v)]]
        ELSE [st |-> "unmodelled", reg |-> reg]

\* The state of a running chunk: the registry, the events so far, and
\* whether _ENV has been set to the container (the argument).
ChunkRes(st, msg, ev, reg) == [st |-> st, msg |-> msg, ev |-> ev, reg |-> reg]

\* The message of a failed access.
IndexMsg(st) == IF st = "error" THEN "attempt to index a nil value" ELSE ""

\* A chunk-level assignment.
RunAssign(st, reg, isContainer) ==
    Let(PathOf(st.l), LAMBDA path :
    Let(ChunkValue(st.r), LAMBDA v :
        IF path = <<"_ENV">> /\ st.r.k = "vararg"
            THEN ChunkRes("ok", "", <<>>, reg)
        ELSE IF ~isContainer /\ Len(path) >= 2
            THEN ChunkRes("error", "attempt to index a nil value", <<>>, reg)
        ELSE IF ~isContainer \/ ~v.ok
            THEN ChunkRes("unmodelled", "", <<>>, reg)
        ELSE Let(SetPath(reg, path, v.v), LAMBDA set :
                 ChunkRes(set.st, IndexMsg(set.st), <<>>, set.reg))))

\* The condition of a chunk-level `if`: path == nil.
RunCondition(c, reg) ==
    IF c.k = "eq" /\ c.r.k = "nil" THEN GetPath(reg, PathOf(c.l))
    ELSE [st |-> "unmodelled", v |-> NilV]

\* A call at chunk level runs with the container as _ENV.
RunCall(st, reg, print, isContainer) ==
    IF ~isContainer
    THEN ChunkRes("error", "attempt to call a nil value", <<>>, reg)
    ELSE Let(ExecStmts(<<st>>, 1, [_ENV |-> EnvV],
                       BindHelpers([x \in {} |-> NilV], print), reg, print, 0),
             LAMBDA x : ChunkRes(x.st, x.msg, x.ev, reg))

RECURSIVE RunStmts(_, _, _, _, _)
RECURSIVE RunStmt(_, _, _, _)

\* One statement of a chunk.
RunStmt(st, reg, print, isContainer) ==
    IF st.k = "empty" THEN ChunkRes("ok", "", <<>>, reg)
    ELSE IF st.k = "assign" THEN RunAssign(st, reg, isContainer)
    ELSE IF st.k = "if" THEN
        IF ~isContainer
            THEN ChunkRes("error", "attempt to index a nil value", <<>>, reg)
        ELSE Let(RunCondition(st.c, reg), LAMBDA l :
            IF l.st # "ok" THEN ChunkRes(l.st, IndexMsg(l.st), <<>>, reg)
            ELSE IF l.v.t = "nil"
                THEN RunStmts(st.body, 1, reg, print, isContainer)
            ELSE ChunkRes("ok", "", <<>>, reg))
    ELSE IF st.k = "callstat" THEN RunCall(st, reg, print, isContainer)
    ELSE ChunkRes("unmodelled", "", <<>>, reg)

\* The statements of a chunk from the i-th on.
RunStmts(stmts, i, reg, print, isContainer) ==
    IF i > Len(stmts) THEN ChunkRes("ok", "", <<>>, reg)
    ELSE Let(RunStmt(stmts[i], reg, print, isContainer), LAMBDA r :
             IF r.st # "ok" THEN r
             ELSE Let(RunStmts(stmts, i + 1, r.reg, print, isContainer),
                      LAMBDA rest : ChunkRes(rest.st, rest.msg,
                                             r.ev \o rest.ev, rest.reg)))

\* The chunk fn called with arg, which is the container or a string.
RunChunk(fn, reg, print, isContainer) == RunStmts(fn, 1, reg, print, isContainer)

(***************************************************************************)
(* The file system: every path has a file (text and modification time) or  *)
(* none.  Files are shorter than a page, so the text that process_file     *)
(* maps is followed by NUL bytes.                                          *)
(***************************************************************************)
NoFile == [exists |-> FALSE, mtime |-> 0, text |-> ""]
File(mtime, text) == [exists |-> TRUE, mtime |-> mtime, text |-> text]

\* !stat(path, &sb)
Stat(files, path) == path \in DOMAIN files /\ files[path].exists

CustomPath(fnam) == "custom/" \o fnam

(***************************************************************************)
(* The inputs of the model: template names, template texts, data and sinks *)
(***************************************************************************)
Names == {"a", "b", "c"}

Paths == Names

TxPlain == "Hi"
TxData == "v<%= d %>"
TxIncB == "A<%! include b %>"
TxIncA == "B<%! include a %>"
TxIncC == "<%! include c %>x"
TxBase == "<%! block g %>Hi<%! endblock %>"
TxMid == "<%! extends a %>"
TxChild == "<%! extends b %><%! block g %>Hello<%! endblock %>"
TxOpen == "<% ;"
TxBad == "<% ( %>"
TxSelf == "<%! extends b %>"

Texts == {TxPlain, TxData, TxIncB, TxIncA, TxIncC, TxBase, TxMid, TxChild,
          TxOpen, TxBad, TxSelf}

\* The file that is rewritten while a context is in use, and the texts that
\* it is rewritten to.
Editable == {"b"}
Revisions == {TxPlain, TxIncA, TxSelf}

\* reader() and luaL_loadbuffer() are functions of their arguments: their
\* results for the texts of the model are computed once.
ReaderTable == [n \in Names |-> [t \in Texts |-> reader(t, n)]]

ReaderCached(text, fnam) ==
    Let(ReaderTable, LAMBDA tbl :
        IF fnam \in DOMAIN tbl /\ text \in DOMAIN tbl[fnam] THEN tbl[fnam][text]
        ELSE reader(text, fnam))

LuaErrorText == "[string]:1: syntax error"

LoadTable ==
    Let(ReaderTable, LAMBDA tbl :
        [b \in {tbl[n][t][k] : n \in Names, t \in Texts,
                               k \in {"body", "blocks"}} \cup {LuaErrorText}
            |-> luaL_loadbuffer(b)])

LoadCached(buff) ==
    Let(LoadTable, LAMBDA tbl :
        IF buff \in DOMAIN tbl THEN tbl[buff] ELSE luaL_loadbuffer(buff))

(***************************************************************************)
(* process_file(): compile fnam and the templates it depends on.           *)
(*                                                                         *)
(* w is the world that the call works on: files, the registry reg, the     *)
(* writer print of the container, the list ihead of the context, the Lua   *)
(* stack from the container upwards (top last), the events ev of the Lua   *)
(* code that ran, the names for which process_file was entered, and for    *)
(* every entry that a body chunk created the file it was compiled from     *)
(* (src, kept for the properties only).                                    *)
(* rc is "0" or "-1" as returned, or "throw" when a Lua error leaves the   *)
(* function, "hang" or "unmodelled".                                       *)
(***************************************************************************)
ContainerV == [t |-> "container"]
ChunkV(fn) == [t |-> "chunk", body |-> fn]

Push(w, v) == [w EXCEPT !.stack = Append(@, v)]
Pop(w, n) == [w EXCEPT !.stack = SubSeq(@, 1, Len(@) - n)]
\* the value at the negative index -k
StackAt(w, k) == w.stack[Len(w.stack) - k + 1]

Ret(rc, w) == [rc |-> rc, w |-> w]

\* luaL_loadbuffer of the string on top of the stack; on failure the message
\* of Lua and then "syntax error" are pushed and errval is set.
LoadTop(w) ==
    Let(LoadCached(StackAt(w, 1).v), LAMBDA ld :
        IF ld.ok THEN [errval |-> 0, w |-> Push(w, ChunkV(ld.fn))]
        ELSE [errval |-> 3,
              w |-> Push(Push(w, StrV(LuaErrorText)),
                         StrV("syntax error"))])

\* lua_pcall(L, 1, 0, 0); lua_pop(L, 1): the function below the top is called
\* with the top as its argument; an error message replaces both.
PcallPop(w) ==
    Let(StackAt(w, 2), LAMBDA f :
        IF f.t # "chunk"
        THEN [st |-> "ok",
              w |-> Pop(Push(Pop(w, 2),
                             StrV("attempt to call a string value")), 1)]
        ELSE Let(RunChunk(f.body, w.reg, w.print, StackAt(w, 1) = ContainerV),
                 LAMBDA r :
                 [st |-> IF r.st \in {"hang", "unmodelled"} THEN r.st ELSE "ok",
                  w |-> Pop([(IF r.st = "ok" THEN Pop(w, 2)
                              ELSE Push(Pop(w, 2), StrV(r.msg)))
                                EXCEPT !.reg = r.reg, !.ev = @ \o r.ev], 1)]))

\* The body chunk: luaL_loadbuffer, lua_pushvalue(L, -4) and lua_pcall.  The
\* entry that the chunk creates comes from the file at path.
LoadBody(fnam, path, w) ==
    Let(LoadTop(w), LAMBDA ld :
    Let(PcallPop(Push(ld.w, StackAt(ld.w, 4))), LAMBDA pc :
        IF ld.errval = 0
        THEN [pc EXCEPT !.w.src = SetEntry(@, fnam,
                            [path |-> path, mtime |-> w.files[path].mtime,
                             text |-> w.files[path].text])]
        ELSE pc))

\* The blocks chunk: luaL_loadbuffer, lua_pushvalue(L, -3) and lua_pcall.
LoadBlocks(w) ==
    Let(LoadTop(w), LAMBDA ld :
        [errval |-> ld.errval, pc |-> PcallPop(Push(ld.w, StackAt(ld.w, 3)))])

RECURSIVE process_file(_, _)
RECURSIVE ProcessIncludes(_, _, _, _)

\* A variant of ProcessIncludes that leaves the name of the template on the
\* list when its dependencies are done.
ProcessIncludesKeep(fnam, includes, i, w) ==
    IF i > Len(includes)
    THEN Ret("0", w)
    ELSE IF \E j \in 1..Len(w.ihead) : w.ihead[j] = includes[i]
        THEN Ret("-1", Push(w, StrV("recursion detected: " \o includes[i])))
    ELSE IF StackAt(w, 1) # ContainerV
        THEN Ret("throw", Push(w, StrV("attempt to index a nil value")))
    ELSE IF ~Registered(w.reg, includes[i])
        THEN Let(process_file(includes[i], w), LAMBDA nested :
                 IF nested.rc # "0" THEN nested
                 ELSE ProcessIncludes(fnam, includes, i + 1, nested.w))
    ELSE ProcessIncludes(fnam, includes, i + 1, w)

\* SLIST_FOREACH(include, &includes, next) { ... } SLIST_REMOVE_HEAD(ihead)
ProcessIncludes(fnam, includes, i, w) ==
    IF i > Len(includes)
    THEN Ret("0", [w EXCEPT !.ihead = Tail(@)])
    ELSE IF \E j \in 1..Len(w.ihead) : w.ihead[j] = includes[i]
        THEN Ret("-1", Push(w, StrV("recursion detected: " \o includes[i])))
    ELSE IF StackAt(w, 1) # ContainerV
        THEN Ret("throw", Push(w, StrV("attempt to index a nil value")))
    ELSE IF ~Registered(w.reg, includes[i])
        THEN Let(process_file(includes[i], w), LAMBDA nested :
                 IF nested.rc # "0" THEN nested
                 ELSE ProcessIncludes(fnam, includes, i + 1, nested.w))
    ELSE ProcessIncludes(fnam, includes, i + 1, w)

\* A variant of ProcessText in which the blocks buffer is on top of the stack
\* and is loaded and called first.
ProcessTextBlocksFirst(fnam, path, rd, w0) ==
    Let(LoadBody(fnam, path,
                 Push(Push([w0 EXCEPT !.ihead = <<fnam>> \o @],
                           StrV(rd.body)), StrV(rd.blocks))), LAMBDA pc1 :
        IF pc1.st # "ok" THEN Ret(pc1.st, pc1.w)
        ELSE Let(LoadBlocks(pc1.w), LAMBDA l2 :
                 IF l2.pc.st # "ok" THEN Ret(l2.pc.st, l2.pc.w)
                 ELSE IF l2.errval # 0 THEN Ret("-1", l2.pc.w)
                 ELSE ProcessIncludes(fnam, rd.includes, 1, l2.pc.w)))

\* The part of process_file after the file is mapped: the list entry, the
\* reader, the two chunks and the dependencies.
ProcessText(fnam, path, rd, w0) ==
    Let(LoadBody(fnam, path,
                 Push(Push([w0 EXCEPT !.ihead = <<fnam>> \o @],
                           StrV(rd.blocks)), StrV(rd.body))), LAMBDA pc1 :
        IF pc1.st # "ok" THEN Ret(pc1.st, pc1.w)
        ELSE Let(LoadBlocks(pc1.w), LAMBDA l2 :
                 IF l2.pc.st # "ok" THEN Ret(l2.pc.st, l2.pc.w)
                 ELSE IF l2.errval # 0 THEN Ret("-1", l2.pc.w)
                 ELSE ProcessIncludes(fnam, rd.includes, 1, l2.pc.w)))

process_file(fnam, w00) ==
    Let([w00 EXCEPT !.entered = Append(@, fnam)], LAMBDA w0 :
    Let(IF Stat(w0.files, CustomPath(fnam)) THEN CustomPath(fnam) ELSE fnam,
        LAMBDA path :
        IF ~Stat(w0.files, path)
            THEN Ret("-1", Push(w0, StrV("can't stat " \o fnam)))
        ELSE IF w0.files[path].text = ""       \* mmap of length 0: MAP_FAILED
            THEN Ret("-1", Push(w0, StrV("can't mmap " \o fnam)))
        ELSE ProcessText(fnam, path, ReaderCached(w0.files[path].text, fnam),
                         w0)))

(***************************************************************************)
(* render_file(): ctx:renderFile(fnam, data [, sink])                      *)
(***************************************************************************)
NoSink == ""

\* The calls of the sample script: data with the sink collect, then changed
\* data without a sink.
Calls == {[data |-> "1", sink |-> "collect"], [data |-> "2", sink |-> NoSink]}

\* Variants of Stale: every entry is taken as stale, no entry is.
StaleAlways(mtime, sb) == TRUE
StaleNever(mtime, sb) == FALSE

\* if (mtime != sb.st_mtime)
Stale(mtime, sb) == mtime # sb.mtime

\* A variant of SetPrint: the writer of an earlier call is kept when the
\* call passes no sink.
SetPrintKeep(old, sink) ==
    IF sink # NoSink THEN sink ELSE IF old # "" THEN old ELSE "io.write"

\* lines 196-205: the writer `print` of the container is the sink when the
\* call has a fourth argument and io.write otherwise.
SetPrint(old, sink) == IF sink # NoSink THEN sink ELSE "io.write"

\* The outcome of a call: res is "ok", "error" (a Lua error reaches the
\* host), "hang" or "unmodelled"; cont and ihead are the container and the
\* list of the context afterwards.
Outcome(res, msg, rc, w, ev) ==
    [res |-> res, msg |-> msg, rc |-> rc, reg |-> w.reg, print |-> w.print,
     ihead |-> w.ihead, entered |-> w.entered, src |-> w.src, ev |-> w.ev \o ev]

\* lines 207-219: the entry of fnam is there and its mtime differs from the
\* one of the file.
IsStale(reg, sb, fnam) ==
    /\ Registered(reg, fnam)
    /\ reg[fnam].mtime.t = "int"
    /\ Stale(reg[fnam].mtime.v, sb)

\* lines 196-219: the writer is set and a stale entry is evicted.
EvictStale(w, sb, fnam, sink) ==
    IF IsStale(w.reg, sb, fnam)
    THEN [w EXCEPT !.print = SetPrint(@, sink), !.reg = DelEntry(@, fnam),
                   !.src = DelEntry(@, fnam)]
    ELSE [w EXCEPT !.print = SetPrint(@, sink)]

\* lines 236-250: lua_pcall of render_template(data, fnam).
RenderEntry(w, fnam, data, rc) ==
    Let(render_template(w.reg, w.print, [x \in {"d"} |-> StrV(data)], fnam, 1),
        LAMBDA r : Outcome(r.st, r.msg, rc, w, r.ev))

\* lines 221-234: process_file and the mtime of the new entry.
CompileEntry(sb, fnam, data, w1) ==
    Let(process_file(fnam, w1), LAMBDA pf :
        IF pf.rc \in {"-1", "throw"}
            THEN Outcome("error", StackAt(pf.w, 1).v, pf.rc, pf.w, <<>>)
        ELSE IF pf.rc # "0" THEN Outcome(pf.rc, "", pf.rc, pf.w, <<>>)
        ELSE IF StackAt(pf.w, 1) # ContainerV \/ ~Registered(pf.w.reg, fnam)
            THEN Outcome("error", "attempt to index a nil value", "throw",
                         pf.w, <<>>)
        ELSE RenderEntry([pf.w EXCEPT !.reg[fnam].mtime = IntV(sb.mtime)],
                         fnam, data, "0"))

\* The call on a live context whose file exists.
RenderLive(sb, fnam, data, sink, w0) ==
    IF Registered(w0.reg, fnam) /\ w0.reg[fnam].mtime.t # "int"
    THEN Outcome("error", "number expected, got nil", "none",
                 [w0 EXCEPT !.print = SetPrint(@, sink)], <<>>)
    ELSE Let(EvictStale(w0, sb, fnam, sink), LAMBDA w1 :
             IF Registered(w1.reg, fnam)
             THEN RenderEntry(w1, fnam, data, "none")
             ELSE CompileEntry(sb, fnam, data, w1))

render_file(files, cont, ihd, src0, fnam, data, sink) ==
    Let([files |-> files, reg |-> cont.template, print |-> cont.print,
         ihead |-> ihd, stack |-> <<ContainerV>>, ev |-> <<>>,
         entered |-> <<>>, src |-> src0], LAMBDA w0 :
        IF ~Stat(files, fnam)
            THEN Outcome("error", "can't stat " \o fnam, "none", w0, <<>>)
        ELSE IF ~cont.live      \* lua_setfield on the nil user value
            THEN Outcome("error", "attempt to index a nil value", "none", w0, <<>>)
        ELSE RenderLive(files[fnam], fnam, data, sink, w0))

(***************************************************************************)
(* render_clear(): the __gc metamethod of a context                        *)
(***************************************************************************)
\* luaL_Reg render_methods[]: the methods that a context answers to.
render_methods == {"renderFile", "debug"}

\* lua_pushnil(L); lua_setuservalue(L, -2): the container is dropped.
render_clear(cont) == [cont EXCEPT !.live = FALSE, !.template = <<>>]

(***************************************************************************)
(* The state of one context and of the files it reads                      *)
(***************************************************************************)
VARIABLES
    files,      \* the file system: path -> file
    container,  \* the user value of the context: live, template, print
    ihead,      \* ctx->ihead, the list of names being compiled, head first
    src,        \* for every registry entry, the file it was compiled from
    okAt,       \* name -> mtime of the file when renderFile(name) last
                \* returned, 0 when that call failed or none was made
    failed,     \* some renderFile call of this context has failed
    nedits,     \* the number of changes made to the files
    last,       \* the last operation and what it did
    applied     \* the last application of a function to chosen arguments

vars == <<files, container, ihead, src, okAt, failed, nedits, last, applied>>

\* The variables of a context and its files.
ctxvars == <<files, container, ihead, src, okAt, failed, nedits, last>>

NoApply == [f |-> "none"]

\* Bounds of the model
MaxEdits == 1
MaxLeaked == 1

NoOp == [op |-> "none", path |-> "", data |-> "", sink |-> NoSink, res |-> "",
         msg |-> "", rc |-> "none", entered |-> <<>>, ev |-> <<>>,
         hit |-> FALSE, stale |-> FALSE, prevOk |-> FALSE, prevPrint |-> "",
         prevIhead |-> <<>>, regSame |-> TRUE, wasFailed |-> FALSE]

\* The initial files: an including template with its dependency and a
\* template with an open code region; an extends chain c -> b -> a; an
\* including template whose dependency is missing.
InitialFiles ==
    { [p \in Paths |-> IF p = "a" THEN File(1, TxIncB)
                       ELSE IF p = "b" THEN File(1, TxData)
                       ELSE File(1, TxOpen)],
      [p \in Paths |-> IF p = "a" THEN File(1, TxBase)
                       ELSE IF p = "b" THEN File(1, TxMid)
                       ELSE File(1, TxChild)],
      [p \in Paths |-> IF p = "a" THEN File(1, TxIncB)
                       ELSE IF p = "b" THEN NoFile
                       ELSE File(1, TxIncA)] }

\* template_context(): a new context
Init ==
    /\ files \in InitialFiles
    /\ container = [live |-> TRUE, template |-> <<>>, print |-> ""]
    /\ ihead = <<>>
    /\ src = <<>>
    /\ okAt = [n \in Names |-> 0]
    /\ failed = FALSE
    /\ nedits = 0
    /\ last = NoOp
    /\ applied = NoApply


\* The entry of fnam carries the mtime of the file.
EntryFresh(fnam) ==
    /\ Registered(container.template, fnam)
    /\ container.template[fnam].mtime = IntV(files[fnam].mtime)

\* The context after the call with the outcome o, and the record of the call.
RenderFileReturn(fnam, data, sink, o) ==
    /\ container' = [container EXCEPT !.template = o.reg, !.print = o.print]
    /\ ihead' = o.ihead
    /\ src' = o.src
    /\ okAt' = [okAt EXCEPT ![fnam] = IF o.res = "ok" THEN files[fnam].mtime
                                     ELSE 0]
    /\ failed' = (failed \/ o.res # "ok")
    /\ last' = [op |-> "renderFile", path |-> fnam, data |-> data,
                sink |-> sink, res |-> o.res, msg |-> o.msg, rc |-> o.rc,
                entered |-> o.entered, ev |-> o.ev,
                hit |-> Stat(files, fnam) /\ EntryFresh(fnam),
                stale |-> /\ Stat(files, fnam)
                          /\ Registered(container.template, fnam)
                          /\ container.template[fnam].mtime.t = "int"
                          /\ ~EntryFresh(fnam),
                prevOk |-> /\ Stat(files, fnam)
                           /\ okAt[fnam] = files[fnam].mtime,
                prevPrint |-> container.print,
                prevIhead |-> ihead,
                regSame |-> o.reg = container.template,
                wasFailed |-> failed]

\* ctx:renderFile(fnam, data [, sink])
RenderFile(fnam, data, sink) ==
    /\ Len(ihead) <= MaxLeaked
    /\ last.res \notin {"hang", "unmodelled"}
    /\ RenderFileReturn(fnam, data, sink,
           render_file(files, container, ihead, src, fnam, data, sink))
    /\ UNCHANGED <<files, nedits, applied>>

\* ctx:clear(): the method is looked up in the metatable of the context.
Clear ==
    /\ container.live
    /\ IF "clear" \in render_methods
       THEN /\ container' = render_clear(container)
            /\ src' = <<>>
            /\ last' = [NoOp EXCEPT !.op = "clear", !.res = "ok"]
       ELSE /\ UNCHANGED <<container, src>>
            /\ last' = [NoOp EXCEPT !.op = "clear", !.res = "error",
                                    !.msg = "attempt to call a nil value"]
    /\ UNCHANGED <<files, ihead, okAt, failed, nedits, applied>>

\* __gc of the context: render_clear runs.
Collect ==
    /\ container.live
    /\ container' = render_clear(container)
    /\ src' = <<>>
    /\ last' = [NoOp EXCEPT !.op = "gc", !.res = "ok"]
    /\ UNCHANGED <<files, ihead, okAt, failed, nedits, applied>>

\* The environment writes a template file, or touches it (the same text):
\* the modification time of the file is the time of the write.
WriteFile(path, text) ==
    /\ nedits < MaxEdits
    /\ container.live
    /\ text \in Revisions \/ (files[path].exists /\ text = files[path].text)
    /\ files' = [files EXCEPT ![path] = File(nedits + 2, text)]
    /\ nedits' = nedits + 1
    /\ last' = [NoOp EXCEPT !.op = "write", !.path = path]
    /\ UNCHANGED <<container, ihead, src, okAt, failed, applied>>

Next ==
    \/ \E fnam \in Names, c \in Calls : RenderFile(fnam, c.data, c.sink)
    \/ Clear
    \/ Collect
    \/ \E path \in Editable, text \in Texts : WriteFile(path, text)

Spec == Init /\ [][Next]_vars

\* No run of the model leaves the modelled part of Lua.
Modelled == last.res # "unmodelled"

(***************************************************************************)
(* The functions of the renderer applied to chosen arguments: lt_escape to *)
(* a mode and a character, reader to a template text, and renderFile of a  *)
(* new context to a file system.  A behaviour applies one function once.   *)
(***************************************************************************)
EscapeModes == {e_none, e_html, e_xml, e_latex, e_url}

\* The characters of the tables and some that are in no table.
EscapeChars ==
    {html_escape[i].c : i \in 1..Len(html_escape)}
    \cup {latex_escape[i].c : i \in 1..Len(latex_escape)}
    \cup {url_escape[i].c : i \in 1..Len(url_escape)}
    \cup {"a", "Z", "0", "\n", "-", "."}

\* lt_escape(escape, c)
Escape(escape, c) ==
    /\ applied = NoApply
    /\ applied' = [f |-> "lt_escape", escape |-> escape, c |-> c,
                   out |-> lt_escape(escape, c)]
    /\ UNCHANGED ctxvars

\* Template texts without a directive.
PlainTexts == {"", "Hi", "\nHi", "Hi\n", "a]b", "a]]b", "]", "%> <"}

\* A file system with the one template a.
OneFile(text) == [p \in {"a"} |-> File(1, text)]

\* File systems with the directory custom/: a is there, in custom/ only, or
\* in both places; a includes b, which is there, in custom/ only, in both
\* places or nowhere.
CustomWorlds ==
    {[p \in {"a", "b", CustomPath("a"), CustomPath("b")} |->
         IF p = "a" THEN a ELSE IF p = "b" THEN b
         ELSE IF p = CustomPath("a") THEN ca ELSE cb] :
        a \in {NoFile, File(1, "Hi"), File(1, TxIncB)},
        ca \in {NoFile, File(1, "Ho")},
        b \in {NoFile, File(1, "Hi")},
        cb \in {NoFile, File(1, "Ho")}}

\* The mode tags of an expression region.
TagNames == {"html", "xml", "latex", "url", "none"}

\* A template that prints the data d in the mode of tag m.
ExprIn(m) == "<%=" \o m \o " d %>"

\* A template with two includes, b before c, and one that names b twice.
TwoIncludes == "<%! include b %><%! include c %>"
Repeated == "<%! include b %><%! include c %><%! include b %>"
DepContents == {NoFile, File(1, "Hi"), File(1, TxBad)}

\* File systems in which a includes b and c, each there, missing or with a
\* code region that does not load.
DepWorlds ==
    {[p \in Names |-> IF p = "a" THEN File(1, ta)
                      ELSE IF p = "b" THEN fb ELSE fc] :
        ta \in {TwoIncludes, Repeated}, fb \in DepContents, fc \in DepContents}

\* Diamonds: a depends on b and c, by includes in either order or by an
\* extends of b, and b includes c; c is well-formed or does not load.
DiamondTops == {TwoIncludes, "<%! include c %><%! include b %>",
                "<%! include c %><%! extends b %>"}
DiamondWorlds ==
    {[p \in Names |-> IF p = "a" THEN File(1, ta)
                      ELSE IF p = "b" THEN File(1, TxIncC) ELSE File(1, tc)] :
        ta \in DiamondTops, tc \in {TxPlain, TxData, TxBad}}

Worlds ==
    {OneFile(t) : t \in PlainTexts} \cup CustomWorlds
    \cup {OneFile(ExprIn(m)) : m \in TagNames}
    \cup DepWorlds \cup DiamondWorlds

\* ctx:renderFile(fnam, data, collect) on a new context over the files world.
Render(world, fnam) ==
    /\ applied = NoApply
    /\ applied' = [f |-> "renderFile", files |-> world, fnam |-> fnam,
                   out |-> render_file(world, [live |-> TRUE, template |-> <<>>, print |-> ""], <<>>, <<>>, fnam,
                                       "1", "collect")]
    /\ UNCHANGED ctxvars

\* An expression with the tag m, written with and without a blank between
\* the = and the tag, followed by an expression without a tag.
TagSpaced(m) == "<%= " \o m \o " d %><%= d %>"
TagJoined(m) == "<%=" \o m \o " d %><%= d %>"

\* A block g with the regions mid between its two directives.
BlockAround(mid) == "<%! block g %>" \o mid \o "<%! endblock %>"
BlockInsides == {"Hi", "<%= d %>", "<%! include b %>", "<%! escape html %>"}

\* An expression before and two after the instruction escape m.
AmbientText(m) ==
    "<%= d %><%! escape " \o m \o " %><%= d %><%=none d %>"

\* An instruction region with the keyword K, followed by literal text.
KeywordText(K) == "<%! " \o K \o " x %>Hi"
OtherKeywords == {"blocks", "includes", "endblocks", "escaped", "extending",
                  "import", "end"}

\* An expression with the mode tag m and the format f, then literal text;
\* the same after the instruction escape m, without a tag.
Formats == {"", "%5s", "%d"}
FormatText(m, f) == "<%=" \o m \o f \o " d %>x"
AmbientFormat(m, f) == "<%! escape " \o m \o " %><%=" \o f \o " d %>x"

\* The texts that the reader is applied to.
ScanTexts ==
    {TagSpaced(m) : m \in TagNames} \cup {TagJoined(m) : m \in TagNames}
    \cup {BlockAround(mid) : mid \in BlockInsides}
    \cup {AmbientText(m) : m \in TagNames}
    \cup {KeywordText(K) : K \in OtherKeywords}
    \cup {FormatText(m, f) : m \in TagNames \cup {""}, f \in Formats}
    \cup {TwoIncludes, Repeated, "<%! include b %><%! extends b %>"}
    \cup {AmbientFormat(m, f) : m \in TagNames, f \in Formats}

\* reader(L, p, &s, &includes, template, print)
Scan(p, template) ==
    /\ applied = NoApply
    /\ applied' = [f |-> "reader", p |-> p, template |-> template,
                   out |-> reader(p, template)]
    /\ UNCHANGED ctxvars

PureNext ==
    \/ \E escape \in EscapeModes, c \in EscapeChars : Escape(escape, c)
    \/ \E p \in ScanTexts : Scan(p, "a")
    \/ \E world \in Worlds : Render(world, "a")

PureSpec == Init /\ [][PureNext]_vars

(***************************************************************************)
(* Properties                                                              *)
(***************************************************************************)
IsRender == last.op = "renderFile"

\* The texts written by the last call, in order.
IsWrite(x) == x.e = "write"

Written ==
    LET w == SelectSeq(last.ev, IsWrite)
    IN  [i \in 1..Len(w) |-> w[i].b]

WrittenTexts == {last.ev[j].b : j \in {i \in 1..Len(last.ev) : last.ev[i].e = "write"}}

DataTexts == {c.data : c \in Calls}

\* C1: when renderFile(P) has succeeded and the modification time of P's
\* file is unchanged, the next renderFile(P) on the context enters
\* process_file for no template, leaves the registry as it was, and runs
\* the cached routines with the data of this call (unless the walk to the
\* root of the chain never ends, which is the matter of C15).
C1_CacheHit ==
    (IsRender /\ last.prevOk /\ container.live) =>
        /\ last.entered = <<>>
        /\ last.rc = "none"
        /\ last.regSame
        /\ last.res # "hang" =>
               last.ev # <<>> /\ last.ev[1].e = "main" /\ last.ev[1].b = last.path
        /\ WrittenTexts \cap DataTexts \subseteq {last.data}

\* A second renderFile of an unchanged template, with other data than the
\* first, that wrote the data of the second call.
C1_Witness ==
    /\ IsRender /\ last.prevOk /\ container.live
    /\ last.res = "ok" /\ last.data = "2" /\ last.sink = NoSink
    /\ last.prevPrint = "collect"
    /\ "2" \in WrittenTexts

DiskDeps(n) ==
    IF Stat(files, n)
    THEN LET inc == ReaderCached(files[n].text, n).includes
         IN  {inc[i] : i \in 1..Len(inc)}
    ELSE {}

\* The templates reachable from n on disk in one or more steps.
DiskReach(n) ==
    LET r1 == DiskDeps(n)
        r2 == r1 \cup UNION {DiskDeps(m) : m \in r1}
        r3 == r2 \cup UNION {DiskDeps(m) : m \in r2}
    IN  r3

\* The templates on a cycle that is reachable from n on disk.
DiskCycle(n) == {m \in {n} \cup DiskReach(n) : m \in DiskReach(m)}

\* C3 as stated: whenever the templates on disk that are reachable from
\* the rendered path form a cycle, renderFile fails with a recursion error
\* that names a path on the cycle, in every state of the registry.
C3_Original ==
    (IsRender /\ container.live /\ Stat(files, last.path)
              /\ DiskCycle(last.path) # {}) =>
        /\ last.res = "error"
        /\ \E m \in DiskCycle(last.path) : last.msg = "recursion detected: " \o m

\* No call of the context had failed, the templates on disk included each
\* other, and renderFile ran their routines, which called each other until
\* Lua stopped them.
C3_Overflow ==
    /\ IsRender /\ container.live /\ ~last.wasFailed /\ last.prevIhead = <<>>
    /\ DiskCycle(last.path) # {}
    /\ last.rc = "0" /\ last.msg = "stack overflow"

\* The extends chain of t in the registry, from t to the root.
ChainOf(reg, t) ==
    LET n == Cardinality(DOMAIN reg)
        next(c) == IF c # <<>> /\ Registered(reg, c[Len(c)])
                        /\ reg[c[Len(c)]].extends.t = "str" /\ Len(c) <= n
                   THEN Append(c, reg[c[Len(c)]].extends.v) ELSE c
    IN  next(next(next(<<t>>)))

\* The first template of the chain of t that defines block b, "" if none.
FirstDefiner(reg, t, b) ==
    LET c == ChainOf(reg, t)
        d == {i \in 1..Len(c) : Registered(reg, c[i]) /\ b \in DOMAIN reg[c[i]].blk}
    IN  IF d = {} THEN ""
        ELSE c[CHOOSE i \in d : \A j \in d : i <= j]

\* C4: whenever renderFile(L) runs the routines, the main routine of the
\* root of L's extends chain is called with L as the requested template,
\* and every dispatch of a block b from a template t runs the definition
\* of the first template on the chain of t that defines b, or nothing when
\* none does; the child that overrides block g writes its own text, the
\* base rendered directly writes the text of the base.
C4_Dispatch ==
    (IsRender /\ last.ev # <<>>) =>
        LET reg == container.template
            chain == ChainOf(reg, last.path)
            mains == {i \in 1..Len(last.ev) : last.ev[i].e = "main"}
        IN  /\ last.ev[1] = MainEv(chain[Len(chain)], last.path)
            /\ \A i \in 1..Len(last.ev) :
                   last.ev[i].e = "block" =>
                       /\ Cardinality(mains) = 1 => last.ev[i].a = last.path
                       /\ last.ev[i].c
                              = FirstDefiner(reg, last.ev[i].a, last.ev[i].b)
            /\ (/\ last.res = "ok" /\ last.path \in DOMAIN src
                /\ src[last.path].text = TxBase) => Written = <<"Hi">>
            /\ (/\ last.res = "ok" /\ {"a", "b", last.path} \subseteq DOMAIN src
                /\ src[last.path].text = TxChild
                /\ src["b"].text = TxMid /\ src["a"].text = TxBase)
                   => Written = <<"Hello">>

\* The child of a chain of three was rendered: the main routine of the
\* root ran, the block of the child was dispatched and wrote its text.
C4_Witness ==
    /\ IsRender /\ last.res = "ok" /\ last.path = "c"
    /\ last.path \in DOMAIN src /\ src["c"].text = TxChild
    /\ last.ev[1] = MainEv("a", "c")
    /\ \E i \in 1..Len(last.ev) : last.ev[i] = BlockEv("c", "g", "c")
    /\ Written = <<"Hello">>

\* The text has a region <% ... that no %> closes.
Unterminated(text) ==
    \E p \in 1..Len(text) :
        /\ At(text, p, "<%")
        /\ \A q \in (p + 2)..Len(text) : ~At(text, q, "%>")

\* C5 as stated: a template whose text ends inside a code, expression or
\* instruction region is never compiled and registered, and the renderFile
\* call that compiles it fails.
C5_Original ==
    /\ \A n \in DOMAIN container.template \cap DOMAIN src :
           ~Unterminated(src[n].text)
    /\ \A i \in 1..Len(last.entered) :
           (IsRender /\ Stat(files, last.entered[i])
                     /\ Unterminated(files[last.entered[i]].text))
               => last.res = "error"

\* A template whose text ends inside a code region was compiled, registered
\* and rendered without an error.
C5_Registered ==
    /\ IsRender /\ last.res = "ok" /\ last.rc = "0"
    /\ Unterminated(files[last.path].text)
    /\ Registered(container.template, last.path)
    /\ container.template[last.path].main.t = "fn"

\* The templates that the compiled text of the entry n names.
SrcDeps(n) ==
    IF n \in DOMAIN src
    THEN LET inc == ReaderCached(src[n].text, n).includes
         IN  {inc[i] : i \in 1..Len(inc)}
    ELSE {}

\* The entries reachable from the entry n in one or more steps.
SrcReach(n) ==
    LET r1 == SrcDeps(n)
        r2 == r1 \cup UNION {SrcDeps(m) : m \in r1}
        r3 == r2 \cup UNION {SrcDeps(m) : m \in r2}
    IN  r3

\* The entry of d was made from the file of d as it is now.
Fresh(d) ==
    /\ d \in DOMAIN src /\ Stat(files, d)
    /\ src[d].mtime = files[d].mtime /\ src[d].text = files[d].text

\* C6 as stated: when renderFile(P) runs the routines, every registered
\* template in the closure of P was compiled from its file as it is now.
C6_Original ==
    (IsRender /\ last.ev # <<>>) =>
        \A d \in SrcReach(last.path) :
            (Registered(container.template, d) /\ Stat(files, d)) => Fresh(d)

\* A render wrote the output of a dependency whose file had been rewritten
\* since the dependency was compiled.
C6_StaleServed ==
    /\ IsRender /\ last.res = "ok" /\ last.path = "a" /\ Fresh("a")
    /\ "b" \in SrcDeps("a") /\ "b" \in DOMAIN src
    /\ src["b"].text = TxData /\ files["b"].text = TxPlain
    /\ Written = <<"A", "v", last.data>>

\* C7 as stated: the list of the templates being compiled is empty at the
\* start of every renderFile call.
C7_Original == IsRender => last.prevIhead = <<>>

\* A renderFile call of templates without a cycle failed with a recursion
\* error for a name that an earlier, failed call had left on the list.
C7_Spurious ==
    /\ IsRender /\ last.res = "error"
    /\ DiskCycle(last.path) = {}
    /\ \E m \in Names :
           /\ last.msg = "recursion detected: " \o m
           /\ \E i \in 1..Len(last.prevIhead) : last.prevIhead[i] = m

\* The file of n is there and is scanned and loaded without an error.
WellFormed(n) ==
    /\ Stat(files, n)
    /\ files[n].text # ""
    /\ ~Unterminated(files[n].text)
    /\ LoadCached(ReaderCached(files[n].text, n).body).ok
    /\ LoadCached(ReaderCached(files[n].text, n).blocks).ok

\* P and everything it depends on is there, well-formed and acyclic.
Renderable(n) ==
    /\ \A m \in {n} \cup DiskReach(n) : WellFormed(m)
    /\ DiskCycle(n) = {}

\* C8 as stated: after a failed renderFile call, a later renderFile(P)
\* succeeds whenever P and its dependencies exist, are well-formed and
\* acyclic.
C8_Original ==
    (IsRender /\ container.live /\ last.wasFailed /\ Renderable(last.path))
        => last.res = "ok"

\* The template whose dependency was missing was rendered again after the
\* dependency had been written, and the call failed on the entry that the
\* failed compile had left.
C8_Stuck ==
    /\ IsRender /\ container.live /\ last.wasFailed /\ Renderable(last.path)
    /\ last.path = "a" /\ files["b"].mtime > 1
    /\ last.entered = <<>>
    /\ last.msg = "number expected, got nil"

\* C9 as stated: clear() is an operation of the context that the host can
\* call; it drops every entry of the registry and leaves the context
\* usable.
C9_Original ==
    last.op = "clear" =>
        /\ last.res = "ok"
        /\ container.live
        /\ container.template = <<>>

\* The host called clear() on a context with compiled templates: the call
\* raised an error and the registry is as it was.
C9_NoMethod ==
    /\ last.op = "clear" /\ last.res = "error"
    /\ DOMAIN container.template # {}

\* The writer that a call with this sink is to use.
WriterOf(sink) == IF sink = NoSink THEN "io.write" ELSE sink

\* C10: everything that a renderFile call writes, the output of included
\* templates and of blocks too, goes to the sink of that call, or to
\* io.write when the call has none; the sink of an earlier call is not used.
C10_Sink ==
    IsRender =>
        \A i \in 1..Len(last.ev) :
            IsWrite(last.ev[i]) => last.ev[i].a = WriterOf(last.sink)

\* A call without a sink, after a call with one, wrote the text of the
\* template and of the template it includes with io.write.
C10_Witness ==
    /\ IsRender /\ last.res = "ok" /\ last.sink = NoSink
    /\ last.prevPrint = "collect"
    /\ Cardinality({i \in 1..Len(last.ev) : last.ev[i].e = "main"}) = 2
    /\ Len(Written) >= 2
    /\ \A i \in 1..Len(last.ev) : IsWrite(last.ev[i]) => last.ev[i].a = "io.write"

(***************************************************************************)
(* C11                                                                     *)
(***************************************************************************)
\* The text has no <% in it.
NoDirective(text) == \A p \in 1..Len(text) : ~At(text, p, "<%")

\* What the events ev wrote to the writer w, in order.
RECURSIVE OutputOf(_, _)
OutputOf(ev, w) ==
    IF ev = <<>> THEN ""
    ELSE (IF Head(ev).e = "write" /\ Head(ev).a = w THEN Head(ev).b ELSE "")
         \o OutputOf(Tail(ev), w)

\* The render applied to the one template a.
RenderedAlone ==
    /\ applied.f = "renderFile"
    /\ DOMAIN applied.files = {"a"}
    /\ applied.fnam = "a"

\* C11: a template without a directive renders to exactly its source text,
\* and the empty template to the empty output.
C11_Original ==
    (RenderedAlone /\ NoDirective(applied.files["a"].text)) =>
        /\ applied.out.res = "ok"
        /\ OutputOf(applied.out.ev, "collect") = applied.files["a"].text

\* The template of a newline and "Hi" has rendered to "Hi".
C11_NewlineLost ==
    /\ RenderedAlone
    /\ applied.files["a"].text = "\nHi"
    /\ applied.out.res = "ok"
    /\ OutputOf(applied.out.ev, "collect") = "Hi"

(***************************************************************************)
(* C12                                                                     *)
(***************************************************************************)
\* The tables as the specification gives them: character -> substitution.
SpecHtml ==
    [c \in {"&", "<", ">", "\"", "'"} |->
        IF c = "&" THEN "&amp;" ELSE IF c = "<" THEN "&lt;"
        ELSE IF c = ">" THEN "&gt;" ELSE IF c = "\"" THEN "&#034;"
        ELSE "&#039;"]

SpecXml ==
    [c \in DOMAIN SpecHtml |->
        IF c = "\"" THEN "&quot;" ELSE IF c = "'" THEN "&apos;"
        ELSE SpecHtml[c]]

SpecLatex ==
    [c \in {"&", "$", "\\", "_", "<", ">", "%", "#", "^"} |->
        IF c = "\\" THEN "$\\backslash$"
        ELSE IF c \in {"<", ">", "^"} THEN "$" \o c \o "$"
        ELSE "\\" \o c]

\* The ASCII codes of the reserved set of the url mode, in hexadecimal.
SpecUrl ==
    [c \in {" ", "<", ">", "#", "%", "{", "}", "|", "\\", "^", "~", "[", "]",
            Grave, ";", "/", "?", ":", "@", "=", "&", "$"} |->
        "%" \o (IF c = " " THEN "20" ELSE IF c = "<" THEN "3C"
                ELSE IF c = ">" THEN "3E" ELSE IF c = "#" THEN "23"
                ELSE IF c = "%" THEN "25" ELSE IF c = "{" THEN "7B"
                ELSE IF c = "}" THEN "7D" ELSE IF c = "|" THEN "7C"
                ELSE IF c = "\\" THEN "5C" ELSE IF c = "^" THEN "5E"
                ELSE IF c = "~" THEN "7E" ELSE IF c = "[" THEN "5B"
                ELSE IF c = "]" THEN "5D" ELSE IF c = Grave THEN "60"
                ELSE IF c = ";" THEN "3B" ELSE IF c = "/" THEN "2F"
                ELSE IF c = "?" THEN "3F" ELSE IF c = ":" THEN "3A"
                ELSE IF c = "@" THEN "40" ELSE IF c = "=" THEN "3D"
                ELSE IF c = "&" THEN "26" ELSE "24")]

SpecTable(escape) ==
    IF escape = e_html THEN SpecHtml
    ELSE IF escape = e_xml THEN SpecXml
    ELSE IF escape = e_latex THEN SpecLatex
    ELSE IF escape = e_url THEN SpecUrl
    ELSE [c \in {} |-> ""]

\* C12: lt_escape(mode, c) returns the substitution that the table of the
\* mode gives for c, and no substitution for a character that is not in the
\* table and for every character in mode none.
C12_EscapeTable ==
    applied.f = "lt_escape" =>
        applied.out = IF applied.c \in DOMAIN SpecTable(applied.escape)
                      THEN SpecTable(applied.escape)[applied.c]
                      ELSE NULL

\* lt_escape has answered &quot; for the double quote in mode xml.
C12_Witness ==
    /\ applied.f = "lt_escape"
    /\ applied.escape = e_xml
    /\ applied.c = "\""
    /\ applied.out = "&quot;"

(***************************************************************************)
(* C13                                                                     *)
(***************************************************************************)
\* The code that opens the main routine of a template.
MainOpening(template) ==
    "_ENV = ...\ntemplate['" \o template \o "'] = { blk = {} }\ntemplate['"
    \o template \o "'].main = function(_ENV, _t)\n"

\* The print of expression e in the mode named m.
PrintIn(m, e) ==
    IF m = "none" THEN "print(" \o e \o ")\n"
    ELSE "print(escape_" \o m \o "(" \o e \o "))\n"

\* The main body for an expression d with tag m and a later one without.
TaggedBody(m) ==
    MainOpening("a") \o PrintIn(m, "d ") \o PrintIn("none", "d ") \o "end\n"

\* C13: an expression region with a mode tag after the = prints the
\* expression, without the tag, wrapped in the escape call of the tag, and
\* the ambient mode of later expressions stays as it was.
C13_Original ==
    applied.f = "reader" =>
        \A m \in TagNames :
            applied.p \in {TagSpaced(m), TagJoined(m)} =>
                applied.out.body = TaggedBody(m)

\* The tag html after a blank has become part of the expression text.
C13_TagInExpression ==
    /\ applied.f = "reader"
    /\ applied.p = TagSpaced("html")
    /\ applied.out.body =
           MainOpening("a") \o "print(html d )\nprint(d )\nend\n"

(***************************************************************************)
(* C14                                                                     *)
(***************************************************************************)
\* The place that the specification gives for the source of name n.
LookedUp(world, n) ==
    IF Stat(world, CustomPath(n)) THEN CustomPath(n) ELSE n

\* The call has raised the error of a file that is not found.
StatError(o) ==
    o.res = "error" /\ \E n \in Names : o.msg = "can't stat " \o n

\* C14: every compiled template is read from custom/N when that file
\* exists and from N otherwise, and the error of a missing file is raised
\* only for a name that exists in neither place.
C14_Original ==
    (applied.f = "renderFile" /\ applied.files \in CustomWorlds) =>
        /\ \A n \in DOMAIN applied.out.src :
               applied.out.src[n].path = LookedUp(applied.files, n)
        /\ StatError(applied.out) =>
               \E n \in Names :
                   /\ applied.out.msg = "can't stat " \o n
                   /\ ~Stat(applied.files, n)
                   /\ ~Stat(applied.files, CustomPath(n))

\* renderFile('a') has raised "can't stat a" although custom/a exists.
C14_CustomIgnored ==
    /\ applied.f = "renderFile"
    /\ applied.files \in CustomWorlds
    /\ applied.fnam = "a"
    /\ Stat(applied.files, CustomPath("a"))
    /\ applied.out.msg = "can't stat a"
    /\ applied.out.entered = <<>>

(***************************************************************************)
(* C15                                                                     *)
(***************************************************************************)
\* Following extends from n, outside the templates in seen, visits no
\* template twice and ends at a registered template with a main routine.
RECURSIVE EndsAtMain(_, _, _)
EndsAtMain(reg, n, seen) ==
    /\ Registered(reg, n)
    /\ n \notin seen
    /\ IF reg[n].extends.t = "nil" THEN reg[n].main.t = "fn"
       ELSE EndsAtMain(reg, reg[n].extends.v, seen \cup {n})

MainInvoked(o) == \E i \in 1..Len(o.ev) : o.ev[i] = MainEv("a", "a")

\* C16: the environment of an invoked routine binds every helper that the
\* generated code calls, the escape function of each mode included: the
\* routine of an expression in any mode finds its helpers and prints the
\* data.
C16_Original ==
    RenderedAlone =>
        \A m \in TagNames :
            applied.files["a"].text = ExprIn(m) =>
                /\ applied.out.res = "ok"
                /\ OutputOf(applied.out.ev, "collect") = "1"

\* The routine of an html expression was invoked and found no escape_html.
C16_Unbound ==
    /\ RenderedAlone
    /\ applied.files["a"].text = ExprIn("html")
    /\ MainInvoked(applied.out)
    /\ applied.out.res = "error"
    /\ applied.out.msg = "attempt to call a nil value"

(***************************************************************************)
(* C17                                                                     *)
(***************************************************************************)
\* Every entry of the registry has an mtime.
AllDated == \A n \in DOMAIN container.template :
                container.template[n].mtime.t = "int"

\* C17: every successful compile records the mtime of the file in its
\* entry, for the rendered path and for a dependency alike: while no call
\* of the context has failed, every entry has an mtime and no renderFile
\* call raises an error for a missing one.
C17_Original ==
    /\ ~failed => AllDated
    /\ (IsRender /\ ~last.wasFailed) =>
           last.msg # "number expected, got nil"

\* b was compiled as the include of a by a call that succeeded; the first
\* renderFile(b), with no failed call before it, raised an error on the
\* entry without mtime.
C17_NoMtime ==
    /\ IsRender /\ ~last.wasFailed /\ last.path = "b"
    /\ okAt["a"] = files["a"].mtime /\ "b" \in SrcDeps("a")
    /\ Fresh("b")
    /\ last.entered = <<>>
    /\ last.res = "error" /\ last.msg = "number expected, got nil"
    /\ container.template["b"].mtime = NilV

(***************************************************************************)
(* C18                                                                     *)
(***************************************************************************)
\* The reader was applied to the template a with the text p.
Scanned(p) ==
    applied.f = "reader" /\ applied.p = p /\ applied.template = "a"

\* C18: in a template without extends, the endblock of the block g emits
\* the dispatch call for g into the main body, whatever regions stand
\* between the block directive and the endblock.
C18_Original ==
    \A mid \in BlockInsides :
        Scanned(BlockAround(mid)) =>
            applied.out.body = MainOpening("a")
                                   \o "render_block(_ENV, _t, 'g')\n"
                                   \o "end\n"

\* The block g held an include of b, and its endblock emitted the dispatch
\* call for b.
C18_WrongName ==
    /\ Scanned(BlockAround("<%! include b %>"))
    /\ ~applied.out.extends
    /\ applied.out.body = MainOpening("a")
                              \o "render_block(_ENV, _t, 'b')\n"
                              \o "end\n"

(***************************************************************************)
(* C19                                                                     *)
(***************************************************************************)
\* The escape mode named by the tag m.
ModeOf(m) ==
    IF m = "html" THEN e_html
    ELSE IF m = "xml" THEN e_xml
    ELSE IF m = "latex" THEN e_latex
    ELSE IF m = "url" THEN e_url
    ELSE e_none

\* C19: for every mode m the instruction `escape m` sets the ambient mode
\* to m: the expression before it stays as generated, a later expression
\* without a tag is printed in the mode m, and an expression with a tag
\* keeps the mode of its tag.
C19_Original ==
    \A m \in TagNames :
        Scanned(AmbientText(m)) =>
            /\ applied.out.escape = ModeOf(m)
            /\ applied.out.body = MainOpening("a")
                                      \o PrintIn("none", "d ")
                                      \o PrintIn(m, "d ")
                                      \o PrintIn("none", "d ")
                                      \o "end\n"

\* The instruction `escape xml` left the ambient mode at none, and the
\* expression after it was printed without an escape.
C19_XmlIgnored ==
    /\ Scanned(AmbientText("xml"))
    /\ applied.out.escape = e_none
    /\ applied.out.body = MainOpening("a")
                              \o PrintIn("none", "d ")
                              \o PrintIn("none", "d ")
                              \o PrintIn("none", "d ")
                              \o "end\n"

(***************************************************************************)
(* C20                                                                     *)
(***************************************************************************)
\* The reader consumed the instruction region of p and nothing else changed:
\* the result is that of the literal text alone.
OnlyConsumed(p, o) ==
    /\ o.p = Len(p) + 1
    /\ o.body = MainOpening("a") \o "print([[Hi]])\n" \o "end\n"
    /\ o.blocks = "_ENV = ...\n"
    /\ o.includes = <<>>
    /\ o.escape = e_none
    /\ ~o.extends /\ ~o.block

\* C20: an instruction region whose keyword is not exactly include, escape,
\* block, endblock or extends is consumed up to its closing mark and
\* leaves the two code buffers, the dependency list, the ambient mode and
\* the block and extends flags unchanged.
C20_Original ==
    \A K \in OtherKeywords :
        Scanned(KeywordText(K)) => OnlyConsumed(applied.p, applied.out)

\* The keyword includes was taken for include: the file s became a
\* dependency and a call to it was emitted.
C20_PrefixTaken ==
    /\ Scanned(KeywordText("includes"))
    /\ applied.out.includes = <<"s">>
    /\ applied.out.body = MainOpening("a")
                              \o "render_template(_ENV, 's')\n"
                              \o "print([[Hi]])\n" \o "end\n"

(***************************************************************************)
(* C21                                                                     *)
(***************************************************************************)
\* The number of occurrences of the character c in s.
CountChar(s, c) == Cardinality({i \in 1..Len(s) : CharAt(s, i) = c})

\* The scanner of the text s after n turns of its loop.
ScannerAt(s, n) == ReaderTurns(s, "a", ReaderInit("a"), n)

\* The parentheses that the opening of an expression in the mode e with
\* the format f emits: one for print, one for an escape wrapper, one for a
\* format wrapper.
Opened(e, f) ==
    1 + (IF e # e_none THEN 1 ELSE 0) + (IF f # "" THEN 1 ELSE 0)

\* The body of s has k '(' and k ')' besides the pair of the main opening
\* and the pair of the literal x, and the k ')' stand together where the
\* region was closed.
Closes(s, k) ==
    /\ CountChar(reader(s, "a").body, "(") = k + 2
    /\ CountChar(reader(s, "a").body, ")") = k + 2
    /\ \E i \in 1..Len(reader(s, "a").body) :
           At(reader(s, "a").body, i, "d " \o Parens(k) \o "\nprint([[x]])")

\* C21: the counter cb is 0 whenever the scanner is outside the expression
\* state, and the end of an expression region emits as many ')' as its
\* opening emitted '(', for every escape mode, given by a tag or by the
\* ambient mode, and every format.
C21_Balanced ==
    applied.f = "reader" =>
        /\ \A n \in 0..Len(applied.p) :
               ScannerAt(applied.p, n).state # s_expression
                   => ScannerAt(applied.p, n).cb = 0
        /\ \A m \in TagNames \cup {""}, f \in Formats :
               applied.p = FormatText(m, f) => Closes(applied.p, Opened(ModeOf(m), f))
        /\ \A m \in {"html", "latex", "url", "none"}, f \in Formats :
               applied.p = AmbientFormat(m, f)
                   => Closes(applied.p, Opened(ModeOf(m), f))

\* An expression with an escape wrapper and a format wrapper was scanned:
\* the counter was 2 inside the region and three ')' closed it.
C21_Witness ==
    /\ Scanned(FormatText("html", "%5s"))
    /\ \E n \in 1..Len(applied.p) :
           /\ ScannerAt(applied.p, n).state = s_expression
           /\ ScannerAt(applied.p, n).cb = 2
    /\ applied.out.cb = 0 /\ applied.out.state = s_terminate
    /\ applied.out.body = MainOpening("a")
           \o "print(escape_html(string.format([[%5s]], d )))\n"
           \o "print([[x]])\nend\n"

(***************************************************************************)
(* C22                                                                     *)
(***************************************************************************)
\* No name stands twice in the list l.
NoRepeat(l) == \A i, j \in 1..Len(l) : l[i] = l[j] => i = j

\* renderFile('a') was applied to files in which a includes b, then c.
RenderedDeps ==
    /\ applied.f = "renderFile" /\ applied.fnam = "a"
    /\ applied.files \in DepWorlds

\* C22: the dependency list of a scan holds every name once, and the
\* dependencies are compiled in the order of their directives in the
\* source: b is entered before c, and when b is missing the error raised is
\* that of b, whatever the state of c.
C22_Original ==
    /\ applied.f = "reader" => NoRepeat(applied.out.includes)
    /\ RenderedDeps =>
           /\ \A i \in 1..Len(applied.out.entered) :
                  applied.out.entered[i] = <<"a", "b", "c">>[i]
           /\ ~Stat(applied.files, "b") =>
                  applied.out.msg = "can't stat b"

\* b and c were both missing: c, the later include, was entered first and
\* the error raised is that of c.
C22_LastFirst ==
    /\ RenderedDeps
    /\ applied.files["a"].text = TwoIncludes
    /\ ~Stat(applied.files, "b") /\ ~Stat(applied.files, "c")
    /\ applied.out.entered = <<"a", "c">>
    /\ applied.out.res = "error" /\ applied.out.msg = "can't stat c"

(***************************************************************************)
(* C23                                                                     *)
(***************************************************************************)
\* The registry after the code buffer buff was loaded and called with the
\* container; a buffer that does not load is not called.
AfterBuffer(buff, reg) ==
    IF LoadCached(buff).ok
    THEN RunChunk(LoadCached(buff).fn, reg, "", TRUE).reg
    ELSE reg

\* The block map of n after the two buffers of its text ran in the order
\* first, second, or no map when they leave no entry.
BlockMap(n, first, second) ==
    Let(AfterBuffer(ReaderCached(src[n].text, n)[second],
            AfterBuffer(ReaderCached(src[n].text, n)[first], <<>>)),
        LAMBDA reg : IF Registered(reg, n) THEN reg[n].blk ELSE NilV)

\* The entries whose compiled text is known and loads.
Compiled ==
    {n \in DOMAIN src \cap DOMAIN container.template :
        /\ LoadCached(ReaderCached(src[n].text, n).body).ok
        /\ LoadCached(ReaderCached(src[n].text, n).blocks).ok}

\* The text defines the block g outside an extends.
DefinesG(text) == At(text, 1, "<%! block g %>")

\* C23 as stated: the block buffer is compiled and invoked first and the
\* main buffer second, and the block routines are in the block map of the
\* template afterwards.
C23_Original ==
    \A n \in Compiled :
        /\ container.template[n].blk = BlockMap(n, "blocks", "body")
        /\ DefinesG(src[n].text) => "g" \in DOMAIN container.template[n].blk

\* C23 amended: the main buffer is compiled and invoked first and the block
\* buffer second, and the block routines that the block buffer registers
\* are in the block map of the template afterwards; the call that compiles
\* a template with the block g succeeds and leaves its entry.
C23_MainFirst ==
    /\ \A n \in Compiled :
           /\ container.template[n].blk = BlockMap(n, "body", "blocks")
           /\ DefinesG(src[n].text) =>
                  /\ "g" \in DOMAIN container.template[n].blk
                  /\ container.template[n].blk["g"].t = "fn"
    /\ (IsRender /\ last.entered # <<>> /\ DefinesG(files[last.path].text)) =>
           /\ last.res = "ok"
           /\ last.path \in Compiled

\* The template a with the block g was compiled by the last call: its block
\* map holds the routine of g, and the block buffer run before the main
\* buffer would have left the map empty.
C23_Witness ==
    /\ IsRender /\ last.path = "a" /\ last.res = "ok"
    /\ last.entered = <<"a">>
    /\ "a" \in Compiled /\ src["a"].text = TxBase
    /\ container.template["a"].blk["g"].t = "fn"
    /\ BlockMap("a", "blocks", "body") = NoBlocks

(***************************************************************************)
(* C24                                                                     *)
(***************************************************************************)
\* renderFile('a') was applied, on a new context, to a diamond.
RenderedDiamond ==
    /\ applied.f = "renderFile" /\ applied.fnam = "a"
    /\ applied.files \in DiamondWorlds

\* The number of times process_file was entered for n.
Entered(o, n) ==
    Cardinality({i \in 1..Len(o.entered) : o.entered[i] = n})

\* C24: in one renderFile call on an empty registry and an empty list of
\* templates being compiled, a template that is reached along two acyclic
\* paths raises no recursion error and is scanned once, and the list is
\* empty again when the call returns successfully.
C24_Diamond ==
    RenderedDiamond =>
        /\ \A n \in Names : applied.out.msg # "recursion detected: " \o n
        /\ Entered(applied.out, "c") = 1
        /\ \A n \in Names : Entered(applied.out, n) <= 1
        /\ applied.out.res = "ok" => applied.out.ihead = <<>>
        /\ applied.files["c"].text # TxBad => applied.out.res = "ok"

\* a includes b and c, b includes c: c was compiled as the dependency of a,
\* found registered when b named it, and the call returned successfully
\* with an empty list.
C24_Witness ==
    /\ RenderedDiamond
    /\ applied.files["a"].text = TwoIncludes
    /\ applied.files["c"].text = TxPlain
    /\ applied.out.entered = <<"a", "c", "b">>
    /\ applied.out.res = "ok" /\ applied.out.ihead = <<>>
    /\ Registered(applied.out.reg, "c")

====
